---------------------------- MODULE Spec2Model ----------------------------
(***************************************************************************)
(* TaskWrapper: the worktree pool of plan/helpers_and_tools/agent_spawn.sh *)
(* and the task / review facade of taskwrapper/app.go with its services.   *)
(*                                                                         *)
(*   SpecPool  - concurrent runs of agent_spawn.sh over the worktree pool  *)
(*   Spec      - the facade operations of App over TaskService and         *)
(*               AgentService, with the agent as a background flow         *)
(*   SpecPoolFair - SpecPool with the processes of a run scheduled fairly  *)
(*   SpecTerm  - terminal sessions of TerminalService over websockets      *)
(*   SpecStore - concurrent calls of TaskService                           *)
(*   SpecBuffer - one TerminalBuffer fed line by line                      *)
(*   SpecFile  - AtomicWriteJSON step by step, with its faults             *)
(*   SpecCalls - concurrent calls of App.MoveTask, ApproveTask, RejectTask *)
(***************************************************************************)
EXTENDS Integers, Sequences, FiniteSets, TLC

(***************************************************************************)
(* Program constants and model bounds                                      *)
(***************************************************************************)
MAX_SUBAGENTS == 2

LOCK_TIMEOUT == 7200

NumInvocations == 3

MaxTaskId == 2

TickSeconds == 7200

MaxTicks == 2

MaxSpawns == 1

MaxRacing == 2

MaxLaunchTask == 3

MaxConns == 2

MaxOpen == 2

MaxExits == 1

MaxSessions == 2

MaxChunks == 2

\* goroutines calling TaskService, how many of them are in a call or hold a
\* result at a time, and the largest capacity of a task slice
MaxCallers == 2

MaxBusy == 2

MaxCap == 2

BufferMaxLines == 100

BufferMaxBytes == 50000

ReadBufferSize == 1024
\* lines fed to a buffer on its own, and the lengths of the shorter lines
MaxAppends == 160
\* AtomicWriteJSON calls made one after the other
MaxWrites == 2
SmallLine == 1
MidLine == 500

Invocations == 1..NumInvocations

TaskIds == 1..MaxTaskId

LaunchTasks == 1..MaxLaunchTask

Conns == 1..MaxConns

SessionIds == 1..MaxSessions

Callers == 1..MaxCallers

VARIABLES
    \* ---- worktree pool (agent_spawn.sh) ----
    errexitArith,   \* does this bash apply `set -e` to (( )) commands (bash >= 4.1)
    now,            \* date +%s
    dirs,           \* N such that <repo>-subagentN exists (and is a registered worktree)
    lease,          \* N -> contents of <repo>-subagentN/.agent_state, where that file exists
    head,           \* N -> what subagentN has checked out: 0 = detached main, t = task_t
    poolBranches,   \* t such that branch task_t exists (as seen by the script)
    pc,             \* position of each script run
    TASK_ID,        \* $1 of each script run
    idx,            \* loop variable i of each script run
    WORKTREE_NUM,   \* 0 = unset
    stale_cleaned,  \* the worktrees whose lock the cleanup loop removed (the script keeps the count)
    sub,            \* position of the backgrounded subshell ( ... ) &
    \* ---- task store, review and facade (Go) ----
    tasks,          \* TaskService.tasks
    file,           \* plan/task.json
    branches,       \* t such that branch task_t exists
    merged,         \* t such that task_t has been merged into main
    checkedOut,     \* t such that task_t is checked out in a worktree
    agent,          \* t -> state of the agent launched for t
    spawns,         \* the go func() launches dispatched by MoveTask, in order
    last,           \* the last operation and what it returned
    \* ---- terminal sessions (TerminalService) ----
    crashed,        \* "no", or the unrecovered panic that ended the process
    terminals,      \* TerminalService.terminals: session id -> index in terms, 0 = no entry
    terms,          \* the Terminal objects made by createTerminal, in order
    handler,        \* c -> position of the HandleWebSocket call serving connection c
    conn,           \* c -> the websocket connection c: both ends and what the client got
    history,        \* c -> position of the sendTerminalHistory started for c
    access,         \* the last access to ts.terminals and how ts.mu was held for it
    \* ---- concurrent calls of TaskService ----
    mu,             \* TaskService.mu: the writer holding it (0 = none) and the readers
    calls,          \* g -> the call goroutine g is in, and the list it got back
    capacity,       \* cap(TaskService.tasks)
    \* ---- one TerminalBuffer fed line by line ----
    Lines,          \* TerminalBuffer.Lines: the numbers of the lines it holds
    appended,       \* how many times AddLine has been called on it
    lens,           \* the byte lengths of the lines: lens.a up to line lens.switch, lens.b after
    \* ---- one AtomicWriteJSON call step by step ----
    tmpFile,        \* how many <path>.tmp.<nanos> files the directory holds
    backupFile,     \* <path>.backup.<stamp>: "none", "partial" or "whole"
    torn,           \* the task file was truncated by a copy that did not finish
    aw              \* the AtomicWriteJSON call: position, data, backupPath, outcomes

poolVars == <<errexitArith, now, dirs, lease, head, poolBranches, pc, TASK_ID, idx,
              WORKTREE_NUM, stale_cleaned, sub>>

appVars == <<tasks, file, branches, merged, checkedOut, agent, spawns, last>>

termVars == <<crashed, terminals, terms, handler, conn, history, access>>

storeVars == <<mu, calls, capacity>>

bufVars == <<Lines, appended, lens>>

fileVars == <<tmpFile, backupFile, torn, aw>>

vars == <<errexitArith, now, dirs, lease, head, poolBranches, pc, TASK_ID, idx,
          WORKTREE_NUM, stale_cleaned, sub,
          tasks, file, branches, merged, checkedOut, agent, spawns, last,
          crashed, terminals, terms, handler, conn, history, access,
          mu, calls, capacity,
          Lines, appended, lens,
          tmpFile, backupFile, torn, aw>>

(***************************************************************************)
(* agent_spawn.sh                                                          *)
(***************************************************************************)
Min(S) == CHOOSE x \in S : \A y \in S : x <= y

\* $$ of a script run, and $! of its backgrounded subshell
ScriptPid(p) == 2 * p - 1

AgentPid(p) == 2 * p

\* the ways the script ends with a nonzero status
Failures == {"failed_errexit", "failed_full", "failed_alloc", "failed_prepare"}

ScriptRunning(p) == pc[p] \in {"clean", "find", "count", "create", "prepare", "sleep"}

SubshellRunning(p) == sub[p] \in {"writeLease", "claude", "cleanup"}

\* kill -0 "$pid"
Alive(pid) ==
    \E p \in Invocations :
        \/ pid = ScriptPid(p) /\ ScriptRunning(p)
        \/ pid = AgentPid(p) /\ SubshellRunning(p)

\* lines 81-93 and 31-47: no lock is kept for a dead process or past the timeout
IsStale(l) == (~Alive(l.pid)) \/ (now - l.started > LOCK_TIMEOUT)

RemoveLease(n) == [m \in DOMAIN lease \ {n} |-> lease[m]]

\* every worktree taken for available
is_worktree_available_Always(n) == TRUE

\* is_worktree_available "$dir" returns 0
is_worktree_available(n) == (n \notin DOMAIN lease) \/ IsStale(lease[n])

\* a creation loop that runs one number past the maximum
CreateRange_Wide == 1..(MAX_SUBAGENTS + 1)

\* seq 1 "$MAX_SUBAGENTS" of the creation loop
CreateRange == 1..MAX_SUBAGENTS

\* lines 134-143: the first number of the range without a directory, 0 if none
NextFreeDir(d) == IF CreateRange \ d = {} THEN 0 ELSE Min(CreateRange \ d)

\* the variables of a run end with its last process
Forget(p) ==
    /\ TASK_ID' = [TASK_ID EXCEPT ![p] = 0]
    /\ WORKTREE_NUM' = [WORKTREE_NUM EXCEPT ![p] = 0]
    /\ stale_cleaned' = [stale_cleaned EXCEPT ![p] = {}]

\* the tasks the pool has seen, and the first one it has not: launches for
\* tasks the pool has not seen are alike, so a new task takes the next number
SeenTasks == poolBranches \cup {TASK_ID[q] : q \in Invocations}

InitPool ==
    /\ now = 0
    /\ dirs = {}
    /\ lease = << >>
    /\ head = << >>
    /\ poolBranches = {}
    /\ pc = [p \in Invocations |-> "idle"]
    /\ TASK_ID = [p \in Invocations |-> 0]
    /\ idx = [p \in Invocations |-> 0]
    /\ WORKTREE_NUM = [p \in Invocations |-> 0]
    /\ stale_cleaned = [p \in Invocations |-> {}]
    /\ sub = [p \in Invocations |-> "none"]

\* LaunchClaudeAgent runs the script for a task: lines 6-17, 71-72
Start(p, t) ==
    /\ pc[p] = "idle"
    /\ \A q \in Invocations : q < p => pc[q] # "idle"
    /\ Cardinality({q \in Invocations : ScriptRunning(q)}) < MaxRacing
    /\ \A u \in LaunchTasks : u < t => u \in SeenTasks
    /\ pc' = [pc EXCEPT ![p] = "clean"]
    /\ TASK_ID' = [TASK_ID EXCEPT ![p] = t]
    /\ idx' = [idx EXCEPT ![p] = 1]
    /\ UNCHANGED <<errexitArith, now, dirs, lease, head, poolBranches, WORKTREE_NUM,
                   stale_cleaned, sub>>
    /\ UNCHANGED <<appVars, termVars, storeVars, bufVars, fileVars>>

\* the end of the loop of run p at its current iteration
LastIteration(p) == idx[p] >= MAX_SUBAGENTS

\* one iteration of the loop of lines 73-101
CleanStaleLocks(p) ==
    /\ pc[p] = "clean"
    /\ IF idx[p] \in DOMAIN lease /\ IsStale(lease[idx[p]])
       THEN /\ lease' = RemoveLease(idx[p])
            \* ((stale_cleaned++)) has exit status 1 when the count was 0
            /\ IF stale_cleaned[p] = {} /\ errexitArith
               THEN /\ pc' = [pc EXCEPT ![p] = "failed_errexit"]
                    /\ idx' = [idx EXCEPT ![p] = 0]
                    /\ Forget(p)
               ELSE /\ pc' = [pc EXCEPT ![p] = IF LastIteration(p) THEN "find" ELSE "clean"]
                    /\ idx' = [idx EXCEPT ![p] = IF LastIteration(p) THEN 1 ELSE @ + 1]
                    /\ stale_cleaned' = [stale_cleaned EXCEPT ![p] = @ \cup {idx[p]}]
                    /\ UNCHANGED <<TASK_ID, WORKTREE_NUM>>
       ELSE /\ pc' = [pc EXCEPT ![p] = IF LastIteration(p) THEN "find" ELSE "clean"]
            /\ idx' = [idx EXCEPT ![p] = IF LastIteration(p) THEN 1 ELSE @ + 1]
            /\ UNCHANGED <<lease, stale_cleaned, TASK_ID, WORKTREE_NUM>>
    /\ UNCHANGED <<errexitArith, now, dirs, head, poolBranches, sub>>
    /\ UNCHANGED <<appVars, termVars, storeVars, bufVars, fileVars>>

\* one iteration of the loop of lines 112-120
FindAvailable(p) ==
    /\ pc[p] = "find"
    /\ IF idx[p] \in dirs /\ is_worktree_available(idx[p])
       THEN /\ lease' = RemoveLease(idx[p])
            /\ WORKTREE_NUM' = [WORKTREE_NUM EXCEPT ![p] = idx[p]]
            /\ pc' = [pc EXCEPT ![p] = "prepare"]
            /\ idx' = [idx EXCEPT ![p] = 0]
       ELSE /\ pc' = [pc EXCEPT ![p] = IF LastIteration(p) THEN "count" ELSE "find"]
            /\ idx' = [idx EXCEPT ![p] = IF LastIteration(p) THEN 0 ELSE @ + 1]
            /\ UNCHANGED <<lease, WORKTREE_NUM>>
    /\ UNCHANGED <<errexitArith, now, dirs, head, poolBranches, TASK_ID, stale_cleaned, sub>>
    /\ UNCHANGED <<appVars, termVars, storeVars, bufVars, fileVars>>

\* lines 123-131: existing_count against MAX_SUBAGENTS
CountExisting(p) ==
    /\ pc[p] = "count"
    /\ IF Cardinality(dirs) >= MAX_SUBAGENTS
       THEN /\ pc' = [pc EXCEPT ![p] = "failed_full"]
            /\ Forget(p)
       ELSE /\ pc' = [pc EXCEPT ![p] = "create"]
            /\ UNCHANGED <<TASK_ID, WORKTREE_NUM, stale_cleaned>>
    /\ UNCHANGED <<errexitArith, now, dirs, lease, head, poolBranches, idx, sub>>
    /\ UNCHANGED <<appVars, termVars, storeVars, bufVars, fileVars>>

\* lines 133-149: git worktree add --detach for the first free number
CreateWorktree(p) ==
    /\ pc[p] = "create"
    /\ IF NextFreeDir(dirs) = 0
       THEN /\ pc' = [pc EXCEPT ![p] = "failed_alloc"]
            /\ Forget(p)
            /\ UNCHANGED <<dirs, head>>
       ELSE /\ dirs' = dirs \cup {NextFreeDir(dirs)}
            /\ head' = (NextFreeDir(dirs) :> 0) @@ head
            /\ WORKTREE_NUM' = [WORKTREE_NUM EXCEPT ![p] = NextFreeDir(dirs)]
            /\ pc' = [pc EXCEPT ![p] = "prepare"]
            /\ UNCHANGED <<TASK_ID, stale_cleaned>>
    /\ UNCHANGED <<errexitArith, now, lease, poolBranches, idx, sub>>
    /\ UNCHANGED <<appVars, termVars, storeVars, bufVars, fileVars>>

\* prepare_worktree: checkout --detach main, then checkout -b task_<id>,
\* which fails (and set -e ends the script) when the branch exists;
\* then lines 155-195: the prompt, ( ... ) & and AGENT_PID=$!
prepare_worktree(p) ==
    /\ pc[p] = "prepare"
    /\ IF TASK_ID[p] \in poolBranches
       THEN /\ head' = [head EXCEPT ![WORKTREE_NUM[p]] = 0]
            /\ pc' = [pc EXCEPT ![p] = "failed_prepare"]
            /\ Forget(p)
            /\ UNCHANGED <<poolBranches, sub>>
       ELSE /\ head' = [head EXCEPT ![WORKTREE_NUM[p]] = TASK_ID[p]]
            /\ poolBranches' = poolBranches \cup {TASK_ID[p]}
            /\ pc' = [pc EXCEPT ![p] = "sleep"]
            /\ sub' = [sub EXCEPT ![p] = "writeLease"]
            /\ UNCHANGED <<TASK_ID, WORKTREE_NUM, stale_cleaned>>
    /\ UNCHANGED <<errexitArith, now, dirs, lease, idx>>
    /\ UNCHANGED <<appVars, termVars, storeVars, bufVars, fileVars>>

\* lines 197-202: after sleep 0.5, sed the pid if the file is there; the script ends
UpdateLockPid(p) ==
    /\ pc[p] = "sleep"
    /\ lease' = IF WORKTREE_NUM[p] \in DOMAIN lease
                THEN [lease EXCEPT ![WORKTREE_NUM[p]].pid = AgentPid(p)]
                ELSE lease
    /\ pc' = [pc EXCEPT ![p] = "exited"]
    /\ IF sub[p] \in {"done", "dead"} THEN Forget(p)
       ELSE UNCHANGED <<TASK_ID, WORKTREE_NUM, stale_cleaned>>
    /\ UNCHANGED <<errexitArith, now, dirs, head, poolBranches, idx, sub>>
    /\ UNCHANGED <<appVars, termVars, storeVars, bufVars, fileVars>>

\* lines 168-179, in the subshell: cat > .agent_state with pid=$$
WriteLockFile(p) ==
    /\ sub[p] = "writeLease"
    /\ lease' = (WORKTREE_NUM[p] :>
                    [pid |-> ScriptPid(p), task_id |-> TASK_ID[p], started |-> now]) @@ lease
    /\ sub' = [sub EXCEPT ![p] = "claude"]
    /\ UNCHANGED <<errexitArith, now, dirs, head, poolBranches, pc, TASK_ID, idx,
                   WORKTREE_NUM, stale_cleaned>>
    /\ UNCHANGED <<appVars, termVars, storeVars, bufVars, fileVars>>

\* line 183: claude returns; set -e ends the subshell on a nonzero status
AgentExits(p, status) ==
    /\ sub[p] = "claude"
    /\ sub' = [sub EXCEPT ![p] = IF status = 0 THEN "cleanup" ELSE "dead"]
    /\ IF status # 0 /\ pc[p] = "exited" THEN Forget(p)
       ELSE UNCHANGED <<TASK_ID, WORKTREE_NUM, stale_cleaned>>
    /\ UNCHANGED <<errexitArith, now, dirs, lease, head, poolBranches, pc, idx>>
    /\ UNCHANGED <<appVars, termVars, storeVars, bufVars, fileVars>>

\* lines 185-189: git checkout --detach main; rm -f .agent_state
AgentCleanup(p) ==
    /\ sub[p] = "cleanup"
    /\ head' = [head EXCEPT ![WORKTREE_NUM[p]] = 0]
    /\ lease' = RemoveLease(WORKTREE_NUM[p])
    /\ sub' = [sub EXCEPT ![p] = "done"]
    /\ IF pc[p] = "exited" THEN Forget(p)
       ELSE UNCHANGED <<TASK_ID, WORKTREE_NUM, stale_cleaned>>
    /\ UNCHANGED <<errexitArith, now, dirs, poolBranches, pc, idx>>
    /\ UNCHANGED <<appVars, termVars, storeVars, bufVars, fileVars>>

\* time passes between script runs (a run lasts about a second)
Tick ==
    /\ now < MaxTicks * TickSeconds
    /\ DOMAIN lease # {}
    /\ \A p \in Invocations : ~ScriptRunning(p)
    /\ now' = now + TickSeconds
    /\ UNCHANGED <<errexitArith, dirs, lease, head, poolBranches, pc, TASK_ID, idx,
                   WORKTREE_NUM, stale_cleaned, sub>>
    /\ UNCHANGED <<appVars, termVars, storeVars, bufVars, fileVars>>

NextPool ==
    \/ \E p \in Invocations, t \in LaunchTasks : Start(p, t)
    \/ \E p \in Invocations : CleanStaleLocks(p)
    \/ \E p \in Invocations : FindAvailable(p)
    \/ \E p \in Invocations : CountExisting(p)
    \/ \E p \in Invocations : CreateWorktree(p)
    \/ \E p \in Invocations : prepare_worktree(p)
    \/ \E p \in Invocations : UpdateLockPid(p)
    \/ \E p \in Invocations : WriteLockFile(p)
    \/ \E p \in Invocations, status \in {0, 1} : AgentExits(p, status)
    \/ \E p \in Invocations : AgentCleanup(p)
    \/ Tick

\* the processes of a run are scheduled: a script that is running reaches its
\* end, and a subshell writes its lease and, once claude has returned zero,
\* detaches and removes the lease.  Nothing makes claude return, a launch
\* happen or time pass.
FairPool ==
    \A p \in Invocations :
        /\ WF_vars(CleanStaleLocks(p))
        /\ WF_vars(FindAvailable(p))
        /\ WF_vars(CountExisting(p))
        /\ WF_vars(CreateWorktree(p))
        /\ WF_vars(prepare_worktree(p))
        /\ WF_vars(UpdateLockPid(p))
        /\ WF_vars(WriteLockFile(p))
        /\ WF_vars(AgentCleanup(p))

(***************************************************************************)
(* Tasks: README.md (types), part_004 (TaskService), file_utils.go         *)
(***************************************************************************)
Statuses == {"backlog", "todo", "doing", "pending_review", "done"}

Priorities == {"high", "medium", "low"}

\* a title is the sequence of its pieces, so that a prefix can be told
MARKER == "NOT MERGED: "

\* Deps []int and Parent *int: a nil slice or pointer is told from a value
NilSlice == [nil |-> TRUE, elems |-> << >>]

Slice(e) == [nil |-> FALSE, elems |-> e]

NilPtr == [nil |-> TRUE, v |-> 0]

Ptr(n) == [nil |-> FALSE, v |-> n]

TaskOf(i, tt, s, p, d, par) ==
    [id |-> i, title |-> tt, status |-> s, priority |-> p, deps |-> d, parent |-> par]

\* a task without dependencies and without a parent
Task(i, tt, s, p) == TaskOf(i, tt, s, p, NilSlice, NilPtr)

\* the zero value of the Task struct
ZeroTask == TaskOf(0, << >>, "", "", NilSlice, NilPtr)

\* JSON values
JNull == [t |-> "null", v |-> 0]

JNum(n) == [t |-> "number", v |-> n]

JStr(x) == [t |-> "string", v |-> x]

JArr(e) == [t |-> "array", v |-> e]

\* a nil slice written as an empty array
MarshalTask_NilAsEmpty(task) ==
    [id |-> JNum(task.id), title |-> JStr(task.title),
     status |-> JStr(task.status), priority |-> JStr(task.priority),
     deps |-> JArr(task.deps.elems),
     parent |-> IF task.parent.nil THEN JNull ELSE JNum(task.parent.v)]

\* json.MarshalIndent of one Task: every field is written under its tag, a
\* nil slice and a nil pointer as null
MarshalTask(task) ==
    [id |-> JNum(task.id), title |-> JStr(task.title),
     status |-> JStr(task.status), priority |-> JStr(task.priority),
     deps |-> IF task.deps.nil THEN JNull ELSE JArr(task.deps.elems),
     parent |-> IF task.parent.nil THEN JNull ELSE JNum(task.parent.v)]

\* json.MarshalIndent of the task list: an array of objects in list order
Marshal(list) == [k \in 1..Len(list) |-> MarshalTask(list[k])]

\* json.Unmarshal of one object into a Task that holds old: null leaves an
\* int or a string as it is and sets a slice or a pointer to nil
UnmarshalTask(obj, old) ==
    TaskOf(IF obj.id.t = "number" THEN obj.id.v ELSE old.id,
           IF obj.title.t = "string" THEN obj.title.v ELSE old.title,
           IF obj.status.t = "string" THEN obj.status.v ELSE old.status,
           IF obj.priority.t = "string" THEN obj.priority.v ELSE old.priority,
           IF obj.deps.t = "array" THEN Slice(obj.deps.v) ELSE NilSlice,
           IF obj.parent.t = "number" THEN Ptr(obj.parent.v) ELSE NilPtr)

\* json.Unmarshal(data, &ts.tasks): the k-th object is decoded into the
\* k-th element the slice already has, and into a zero Task beyond its length
Unmarshal(doc, old) ==
    [k \in 1..Len(doc) |-> UnmarshalTask(doc[k], IF k <= Len(old) THEN old[k] ELSE ZeroTask)]

\* the task list a reader of the file gets
Parsed(f) == Unmarshal(f.data, << >>)

\* a reload that reads the file only while the list in memory is empty
Reloaded_Cached(f, ts) == IF ts # << >> THEN ts ELSE Unmarshal(f.data, ts)

\* LoadTasks, lines 36 and 50: the file is read and decoded into ts.tasks
Reloaded(f, ts) == Unmarshal(f.data, ts)

\* strings.HasPrefix(task.Title, "NOT MERGED: ")
HasPrefix(tt) == Len(tt) > 0 /\ tt[1] = MARKER

\* TaskStatus.Valid, TaskPriority.Valid and ParseTaskStatus
StatusValid(s) == s \in Statuses

PriorityValid(p) == p \in Priorities

\* validateTasks returns nil
validateTasks(list) ==
    \A i \in 1..Len(list) :
        /\ list[i].title # << >>
        /\ StatusValid(list[i].status)
        /\ PriorityValid(list[i].priority)

\* the index of the first task with this id, 0 if there is none
IndexOf(list, i) ==
    IF \E k \in 1..Len(list) : list[k].id = i
    THEN Min({k \in 1..Len(list) : list[k].id = i})
    ELSE 0

StatusOf(list, i) == IF IndexOf(list, i) = 0 THEN "absent" ELSE list[IndexOf(list, i)].status

TitleOf(list, i) == IF IndexOf(list, i) = 0 THEN << >> ELSE list[IndexOf(list, i)].title

\* the outcomes of one AtomicWriteJSON call: all steps succeed; the backup
\* copy fails and the write succeeds; os.WriteFile fails; os.Rename fails
IOOutcomes == {"ok", "backup_fail", "write_fail", "rename_fail"}

SaveErr(io) == io \in {"write_fail", "rename_fail"}

\* a write that reports success and writes nothing
AtomicWriteJSON_Skip(f, data, io) == f

\* AtomicWriteJSON: the file after the call (on a failed write the file was
\* not replaced, and Rollback copies the backup of that same content back)
AtomicWriteJSON(f, data, io) ==
    IF SaveErr(io) THEN f ELSE [exists |-> TRUE, data |-> Marshal(data)]

\* saveTasks with the error of the write dropped
saveTasks_Swallow(nt, f, io) ==
    [err |-> "ok", tasks |-> nt, file |-> AtomicWriteJSON(f, nt, io)]

\* saveTasks, after the in-memory list became nt
saveTasks(nt, f, io) ==
    [err |-> IF SaveErr(io) THEN "save_failed" ELSE "ok",
     tasks |-> nt, file |-> AtomicWriteJSON(f, nt, io)]

\* an early return: nothing was assigned
Unchanged(e, ts, f) == [err |-> e, tasks |-> ts, file |-> f]

\* TaskService.SaveTasks
TS_SaveTasks(ts, f, list, io) ==
    IF ~validateTasks(list) THEN Unchanged("validation", ts, f)
    ELSE saveTasks(list, f, io)

\* the task put into the list before it is validated
TS_UpdateTask_AssignFirst(ts, f, task, io) ==
    IF IndexOf(ts, task.id) = 0 THEN Unchanged("not_found", ts, f)
    ELSE IF ~validateTasks(<<task>>)
    THEN Unchanged("validation", [ts EXCEPT ![IndexOf(ts, task.id)] = task], f)
    ELSE saveTasks([ts EXCEPT ![IndexOf(ts, task.id)] = task], f, io)

\* TaskService.UpdateTask
TS_UpdateTask(ts, f, task, io) ==
    IF ~validateTasks(<<task>>) THEN Unchanged("validation", ts, f)
    ELSE IF IndexOf(ts, task.id) = 0 THEN Unchanged("not_found", ts, f)
    ELSE saveTasks([ts EXCEPT ![IndexOf(ts, task.id)] = task], f, io)

\* the moved task put at the end of the list
TS_MoveTask_ToEnd(ts, f, i, newStatus, io) ==
    IF ~StatusValid(newStatus) THEN Unchanged("invalid_status", ts, f)
    ELSE IF IndexOf(ts, i) = 0 THEN Unchanged("not_found", ts, f)
    ELSE LET k == IndexOf(ts, i)
         IN saveTasks(Append(SubSeq(ts, 1, k - 1) \o SubSeq(ts, k + 1, Len(ts)),
                             [ts[k] EXCEPT !.status = newStatus]), f, io)

\* a move that also steps the task's priority on
TS_MoveTask_Rotate(ts, f, i, newStatus, io) ==
    IF ~StatusValid(newStatus) THEN Unchanged("invalid_status", ts, f)
    ELSE IF IndexOf(ts, i) = 0 THEN Unchanged("not_found", ts, f)
    ELSE LET k == IndexOf(ts, i)
             next == [high |-> "medium", medium |-> "low", low |-> "high"]
         IN saveTasks([ts EXCEPT ![k].status = newStatus, ![k].priority = next[@]], f, io)

\* TaskService.MoveTask
TS_MoveTask(ts, f, i, newStatus, io) ==
    IF ~StatusValid(newStatus) THEN Unchanged("invalid_status", ts, f)
    ELSE IF IndexOf(ts, i) = 0 THEN Unchanged("not_found", ts, f)
    ELSE saveTasks([ts EXCEPT ![IndexOf(ts, i)].status = newStatus], f, io)

\* the record of the last call: what was called and for which task; for a
\* move the task's status before the call and the status asked for; for an
\* approval that got to its save the outcome of that write; for a rejection
\* that got to its save, in from, whether the title was marked before the
\* call; for a load, in from, whether it follows an edit of the file from
\* outside or found no file; what it returned
Op(o, i, from, to, io, res) ==
    [op |-> o, id |-> i, from |-> from, to |-> to, io |-> io, result |-> res]

NoOp == Op("init", 0, "", "", "none", "ok")

\* goroutine g is in no call and holds no result
NoCall ==
    [pc |-> "idle", op |-> "", list |-> << >>, task |-> ZeroTask, id |-> 0,
     status |-> "", err |-> "", val |-> << >>, alias |-> FALSE, snap |-> << >>]

\* NewTaskService: tasks is []Task{}, the mutex is free
InitStore ==
    /\ mu = [w |-> 0, r |-> {}]
    /\ calls = [g \in Callers |-> NoCall]
    /\ capacity = 0

\* NewTerminalService: no session; no connection has come in
InitTerm ==
    /\ crashed = "no"
    /\ terminals = [i \in SessionIds |-> 0]
    /\ terms = << >>
    /\ handler = [c \in Conns |-> [pc |-> "idle", id |-> 0, term |-> 0, wait |-> 0]]
    /\ conn = [c \in Conns |-> [client |-> FALSE, open |-> FALSE, received |-> << >>]]
    /\ history = [c \in Conns |-> [pc |-> "none", term |-> 0, lines |-> << >>]]
    /\ access = [op |-> "none", mu |-> "none"]

\* NewTerminalBuffer; the lines it will get are full read buffers
InitBuf ==
    /\ Lines = << >>
    /\ appended = 0
    /\ lens = [a |-> ReadBufferSize, b |-> ReadBufferSize, switch |-> 0]

\* no AtomicWriteJSON call is under way and the directory holds no other file
NoWrite ==
    [pc |-> "idle", data |-> << >>, backupPath |-> FALSE,
     before |-> [exists |-> FALSE, data |-> << >>], tornBefore |-> FALSE,
     backup |-> "", write |-> "", err |-> "", n |-> 0]

InitFile ==
    /\ tmpFile = 0
    /\ backupFile = "none"
    /\ torn = FALSE
    /\ aw = NoWrite

InitAppIdle ==
    /\ tasks = << >>
    /\ file = [exists |-> FALSE, data |-> << >>]
    /\ branches = {}
    /\ merged = {}
    /\ checkedOut = {}
    /\ agent = [t \in TaskIds |-> "none"]
    /\ spawns = << >>
    /\ last = NoOp

InitPoolSpec == errexitArith \in BOOLEAN /\ InitPool /\ InitAppIdle /\ InitTerm /\ InitStore /\ InitBuf /\ InitFile

SpecPool == InitPoolSpec /\ [][NextPool]_vars

SpecPoolFair == InitPoolSpec /\ [][NextPool]_vars /\ FairPool

(***************************************************************************)
(* Review: README.md (AgentService) and taskwrapper/app.go (App)           *)
(***************************************************************************)
\* git branch -d task_<t>, after the merge: git refuses a branch that is
\* checked out in a worktree; ApproveTask only logs the refusal
deleteBranch(b, co, t) == IF t \in co THEN b ELSE b \ {t}

\* git branch -D task_<t>: the same refusal; RejectTask only logs it
forceDeleteBranch(b, co, t) == IF t \in co THEN b ELSE b \ {t}

\* the branch deleted before the merge is known to have succeeded
AS_ApproveTask_DeleteFirst(b, m, co, t, mergeOk) ==
    IF t \notin b THEN [err |-> "no_branch", branches |-> b, merged |-> m]
    ELSE IF ~mergeOk
         THEN [err |-> "merge_failed", branches |-> deleteBranch(b, co, t), merged |-> m]
         ELSE [err |-> "ok", branches |-> deleteBranch(b, co, t), merged |-> m \cup {t}]

\* AgentService.ApproveTask: checkBranchExists, mergeBranch, deleteBranch
AS_ApproveTask(b, m, co, t, mergeOk) ==
    IF t \notin b THEN [err |-> "no_branch", branches |-> b, merged |-> m]
    ELSE IF ~mergeOk THEN [err |-> "merge_failed", branches |-> b, merged |-> m]
    ELSE [err |-> "ok", branches |-> deleteBranch(b, co, t), merged |-> m \cup {t}]

\* a refused deletion returned as an error
AS_RejectTask_Strict(b, co, t) ==
    [err |-> IF forceDeleteBranch(b, co, t) = b THEN "delete_failed" ELSE "ok",
     branches |-> forceDeleteBranch(b, co, t)]

\* AgentService.RejectTask: forceDeleteBranch, its error logged; returns nil
AS_RejectTask(b, co, t) ==
    [err |-> "ok", branches |-> forceDeleteBranch(b, co, t)]

\* the loop without its test of the status
RequireReview_AnyStatus(list, i) == IF IndexOf(list, i) = 0 THEN "not_found" ELSE "ok"

\* the loop that opens App.ApproveTask and App.RejectTask
RequireReview(list, i) ==
    IF IndexOf(list, i) = 0 THEN "not_found"
    ELSE IF list[IndexOf(list, i)].status # "pending_review" THEN "not_review"
    ELSE "ok"

\* the title left as it is
MarkNotMerged_Never(tt) == tt

\* the marker put in front of every non-empty title
MarkNotMerged_Always(tt) == IF tt # << >> THEN <<MARKER>> \o tt ELSE tt

\* App.RejectTask, lines 405-407
MarkNotMerged(tt) == IF tt # << >> /\ ~HasPrefix(tt) THEN <<MARKER>> \o tt ELSE tt

\* a launch for every move into doing
ShouldLaunch_AnyOrigin(old, new) == new = "doing"

\* App.MoveTask, line 325
ShouldLaunch(old, new) == old = "todo" /\ new = "doing"

\* the error of UpdateTask dropped
ApproveReturn_Swallow(e) == "ok"

\* what App.ApproveTask returns after UpdateTask returned e
ApproveReturn(e) == e

\* TaskService.LoadTasks
LoadTasks(io) ==
    /\ IF file.exists
       THEN /\ tasks' = Reloaded(file, tasks)
            /\ UNCHANGED file
            /\ last' = Op("load", 0, IF last.op = "edit" THEN "edited" ELSE "", "", "none", "ok")
       ELSE /\ tasks' = << >>
            /\ file' = AtomicWriteJSON(file, << >>, io)
            /\ last' = Op("load", 0, "missing", "", "none",
                          IF SaveErr(io) THEN "save_failed" ELSE "ok")
    /\ UNCHANGED <<branches, merged, checkedOut, agent, spawns>>
    /\ UNCHANGED <<poolVars, termVars, storeVars, bufVars, fileVars>>

\* an editor outside the program replaces plan/task.json with the document
\* of list
ExternalEdit(list) ==
    /\ file' = [exists |-> TRUE, data |-> Marshal(list)]
    /\ last' = Op("edit", 0, "", "", "none", "ok")
    /\ UNCHANGED <<tasks, branches, merged, checkedOut, agent, spawns>>
    /\ UNCHANGED <<poolVars, termVars, storeVars, bufVars, fileVars>>

\* App.SaveTasks
SaveTasks(list, io) ==
    /\ LET r == TS_SaveTasks(tasks, file, list, io) IN
          /\ tasks' = r.tasks
          /\ file' = r.file
          /\ last' = Op("save", 0, "", "", "none", r.err)
    /\ UNCHANGED <<branches, merged, checkedOut, agent, spawns>>
    /\ UNCHANGED <<poolVars, termVars, storeVars, bufVars, fileVars>>

\* App.UpdateTask
UpdateTask(task, io) ==
    /\ LET r == TS_UpdateTask(tasks, file, task, io) IN
          /\ tasks' = r.tasks
          /\ file' = r.file
          /\ last' = Op("update", task.id, "", "", "none", r.err)
    /\ UNCHANGED <<branches, merged, checkedOut, agent, spawns>>
    /\ UNCHANGED <<poolVars, termVars, storeVars, bufVars, fileVars>>

\* App.MoveTask
MoveTask(i, newStatus, io) ==
    /\ IF IndexOf(tasks, i) = 0
       THEN /\ last' = Op("move", i, "absent", newStatus, "none", "not_found")
            /\ UNCHANGED <<tasks, file, spawns>>
       ELSE LET old == StatusOf(tasks, i)
                r == TS_MoveTask(tasks, file, i, newStatus, io)
            IN  /\ tasks' = r.tasks
                /\ file' = r.file
                /\ last' = Op("move", i, old, newStatus, "none", r.err)
                /\ IF r.err = "ok" /\ ShouldLaunch(old, newStatus)
                   THEN /\ Len(spawns) < MaxSpawns
                        /\ spawns' = Append(spawns, i)
                   ELSE UNCHANGED spawns
    /\ UNCHANGED <<branches, merged, checkedOut, agent>>
    /\ UNCHANGED <<poolVars, termVars, storeVars, bufVars, fileVars>>

\* App.ApproveTask
ApproveTask(i, mergeOk, io) ==
    /\ IF RequireReview(tasks, i) # "ok"
       THEN /\ last' = Op("approve", i, "", "", "none", RequireReview(tasks, i))
            /\ UNCHANGED <<tasks, file, branches, merged>>
       ELSE LET g == AS_ApproveTask(branches, merged, checkedOut, i, mergeOk) IN
            IF g.err # "ok"
            THEN /\ last' = Op("approve", i, "", "", "none", g.err)
                 /\ branches' = g.branches
                 /\ merged' = g.merged
                 /\ UNCHANGED <<tasks, file>>
            ELSE LET task == [tasks[IndexOf(tasks, i)] EXCEPT !.status = "done"]
                     u == TS_UpdateTask(tasks, file, task, io)
                 IN  /\ branches' = g.branches
                     /\ merged' = g.merged
                     /\ tasks' = u.tasks
                     /\ file' = u.file
                     /\ last' = Op("approve", i, "", "", io, ApproveReturn(u.err))
    /\ UNCHANGED <<checkedOut, agent, spawns>>
    /\ UNCHANGED <<poolVars, termVars, storeVars, bufVars, fileVars>>

\* App.RejectTask
RejectTask(i, io) ==
    /\ IF RequireReview(tasks, i) # "ok"
       THEN /\ last' = Op("reject", i, "", "", "none", RequireReview(tasks, i))
            /\ UNCHANGED <<tasks, file, branches>>
       ELSE LET t == tasks[IndexOf(tasks, i)]
                g == AS_RejectTask(branches, checkedOut, i)
                task == [t EXCEPT !.title = MarkNotMerged(t.title), !.status = "done"]
                u == TS_UpdateTask(tasks, file, task, io)
            IN  IF g.err # "ok"
                THEN /\ branches' = g.branches
                     /\ last' = Op("reject", i, "", "", "none", g.err)
                     /\ UNCHANGED <<tasks, file>>
                ELSE /\ branches' = g.branches
                     /\ tasks' = u.tasks
                     /\ file' = u.file
                     /\ last' = Op("reject", i,
                                   IF HasPrefix(t.title) THEN "marked" ELSE "plain",
                                   "", "none", u.err)
    /\ UNCHANGED <<merged, checkedOut, agent, spawns>>
    /\ UNCHANGED <<poolVars, termVars, storeVars, bufVars, fileVars>>

(***************************************************************************)
(* Background flows of the facade: the go func() of MoveTask running       *)
(* LaunchClaudeAgent, and the agent that agent_spawn.sh starts             *)
(***************************************************************************)
\* the branches left checked out by agents that ended without the detach
StaleCheckouts == {u \in checkedOut : agent[u] = "none"}

\* s without its k-th element
RemoveAt(s, k) == SubSeq(s, 1, k - 1) \o SubSeq(s, k + 1, Len(s))

\* the other end of a failed launch: it puts the task back into todo
AfterFailedLaunch_Revert(f, t) ==
    IF f.exists /\ IndexOf(Parsed(f), t) # 0
    THEN [f EXCEPT !.data[IndexOf(Parsed(f), t)].status = JStr("todo")]
    ELSE f

\* the task file after LaunchClaudeAgent returned an error to the go func()
\* of App.MoveTask: the error is logged, the file is not written
AfterFailedLaunch(f, t) == f

\* LaunchClaudeAgent for the k-th launch in flight.  The script succeeds
\* only when task_<t> does not exist yet (checkout -b); it may fail for the
\* pool's reasons.  A worktree taken over is detached from its old branch
\* (reuse # 0) by prepare_worktree.  A failure is logged and nothing else.
LaunchClaudeAgent(k, launched, reuse) ==
    /\ k \in 1..Len(spawns)
    /\ reuse \in StaleCheckouts \cup {0}
    /\ LET t == spawns[k] IN
       IF launched
       THEN /\ t \notin branches
            /\ branches' = branches \cup {t}
            /\ checkedOut' = (checkedOut \ {reuse}) \cup {t}
            /\ agent' = [agent EXCEPT ![t] = "running"]
            /\ last' = Op("launch", t, "", "", "none", "ok")
       ELSE /\ reuse # 0 => t \in branches
            /\ checkedOut' = checkedOut \ {reuse}
            /\ last' = Op("launch", t, "", "", "none", "failed")
            /\ file' = AfterFailedLaunch(file, t)
            /\ UNCHANGED <<branches, agent>>
    /\ launched => UNCHANGED file
    /\ spawns' = RemoveAt(spawns, k)
    /\ UNCHANGED <<tasks, merged>>
    /\ UNCHANGED <<poolVars, termVars, storeVars, bufVars, fileVars>>

\* the agent follows the prompt (lines 159-164): it sets the task's status
\* to pending_review in plan/task.json of the main checkout
AgentMarksReview(t) ==
    /\ agent[t] = "running"
    /\ file.exists
    /\ IndexOf(Parsed(file), t) # 0
    /\ file' = [file EXCEPT !.data[IndexOf(Parsed(file), t)].status = JStr("pending_review")]
    /\ agent' = [agent EXCEPT ![t] = "marked"]
    /\ last' = Op("agent_mark", t, "", "", "none", "ok")
    /\ UNCHANGED <<tasks, branches, merged, checkedOut, spawns>>
    /\ UNCHANGED <<poolVars, termVars, storeVars, bufVars, fileVars>>

\* claude returns: lines 183-189 (no detach after a nonzero status)
AgentFinishes(t, status) ==
    /\ agent[t] \in {"running", "marked"}
    /\ agent' = [agent EXCEPT ![t] = "none"]
    /\ checkedOut' = IF status = 0 THEN checkedOut \ {t} ELSE checkedOut
    /\ last' = Op("agent_exit", t, "", "", "none", IF status = 0 THEN "ok" ELSE "failed")
    /\ UNCHANGED <<tasks, file, branches, merged, spawns>>
    /\ UNCHANGED <<poolVars, termVars, storeVars, bufVars, fileVars>>

\* a board with one task, waiting in todo
Board0 == <<Task(1, <<"T">>, "todo", "medium")>>

\* the lists given to SaveTasks: the board, the board in review, the empty
\* list, a list with an empty title
SaveInputs ==
    {Board0,
     <<Task(1, <<"T">>, "pending_review", "medium")>>,
     << >>,
     <<Task(1, << >>, "todo", "medium")>>}

\* the tasks given to UpdateTask: well-formed ones, and one of each defect
UpdateInputs ==
    {Task(1, <<"T">>, s, "medium") : s \in Statuses}
      \cup {Task(i, <<"T">>, "todo", "medium") : i \in TaskIds}
      \cup {Task(1, << >>, "todo", "medium"), Task(1, <<"T">>, "blocked", "medium"),
            Task(1, <<"T">>, "todo", "urgent")}

\* the lists an editor outside the program writes: the board with its task
\* taken from todo to doing, and no task
EditInputs == {<<Task(1, <<"T">>, "doing", "medium")>>, << >>}

\* the status names given to MoveTask: the valid ones and an unknown one
MoveInputs == Statuses \cup {"blocked"}

InitApp ==
    /\ tasks = << >>
    /\ file \in {[exists |-> FALSE, data |-> << >>], [exists |-> TRUE, data |-> Marshal(Board0)]}
    /\ branches = {}
    /\ merged = {}
    /\ checkedOut = {}
    /\ agent = [t \in TaskIds |-> "none"]
    /\ spawns = << >>
    /\ last = NoOp

Init == errexitArith = FALSE /\ InitPool /\ InitApp /\ InitTerm /\ InitStore /\ InitBuf /\ InitFile

Next ==
    \/ \E io \in IOOutcomes : LoadTasks(io)
    \/ \E list \in SaveInputs, io \in IOOutcomes : SaveTasks(list, io)
    \/ \E task \in UpdateInputs, io \in IOOutcomes : UpdateTask(task, io)
    \/ \E i \in TaskIds, s \in MoveInputs, io \in IOOutcomes : MoveTask(i, s, io)
    \/ \E i \in TaskIds, mergeOk \in BOOLEAN, io \in IOOutcomes : ApproveTask(i, mergeOk, io)
    \/ \E i \in TaskIds, io \in IOOutcomes : RejectTask(i, io)
    \/ \E k \in 1..MaxSpawns, launched \in BOOLEAN, reuse \in TaskIds \cup {0} :
          LaunchClaudeAgent(k, launched, reuse)
    \/ \E t \in TaskIds : AgentMarksReview(t)
    \/ \E list \in EditInputs : ExternalEdit(list)
    \/ \E t \in TaskIds, status \in {0, 1} : AgentFinishes(t, status)

Spec == Init /\ [][Next]_vars

(***************************************************************************)
(* Terminal sessions: part_009 (TerminalService), app.go (TerminalBuffer)  *)
(***************************************************************************)
\* a chunk of output is the number of the Read that returned it; len(line)
\* of chunk n is what the Read returned, at most the 1024 bytes of the buffer
\* of readFromPty
ChunkBytes(n) == IF n <= lens.switch THEN lens.a ELSE lens.b

RECURSIVE TotalBytes(_)
\* TerminalBuffer.getTotalBytes
TotalBytes(lines) ==
    IF lines = << >> THEN 0 ELSE ChunkBytes(Head(lines)) + TotalBytes(Tail(lines))

RECURSIVE Evict(_)
\* the loop of AddLine: drop the oldest line while a limit is exceeded
Evict(lines) ==
    IF lines # << >> /\ (Len(lines) > BufferMaxLines \/ TotalBytes(lines) > BufferMaxBytes)
    THEN Evict(Tail(lines))
    ELSE lines

\* AddLine keeping to the line limit only
AddLine_LinesOnly(lines, n) ==
    IF Len(lines) + 1 > BufferMaxLines THEN Tail(Append(lines, n)) ELSE Append(lines, n)

\* TerminalBuffer.AddLine
AddLine(lines, n) == Evict(Append(lines, n))

\* TerminalBuffer.GetHistory: a copy of the lines
GetHistory(lines) == lines

\* the Terminal object made by createTerminal for session i and connection c
NewTerminal(i, c) ==
    [ID |-> i, Conn |-> c, Buffer |-> << >>, child |-> "running",
     pc |-> "read", out |-> 0, seen |-> 0]

\* a connection that is closed at one end: what its client had received is
\* gone with the client
Closed(k) == [client |-> k.client, open |-> FALSE, received |-> << >>]

\* an unrecovered panic in a goroutine ends the process: its memory and its
\* connections are gone, the pty masters close and the child shells are
\* hung up
Panic(what) ==
    /\ crashed' = what
    /\ terms' = [o \in DOMAIN terms |->
                    [NewTerminal(terms[o].ID, 0) EXCEPT
                        !.pc = "done",
                        !.child = IF terms[o].child = "running" THEN "killed"
                                  ELSE terms[o].child]]
    /\ terminals' = [i \in SessionIds |-> 0]
    /\ handler' = [c \in Conns |-> [pc |-> "closed", id |-> 0, term |-> 0, wait |-> 0]]
    /\ conn' = [c \in Conns |-> Closed(conn[c])]
    /\ history' = [c \in Conns |-> [pc |-> "none", term |-> 0, lines |-> << >>]]

\* the outcome of WriteJSON on connection x: the frame reaches the client,
\* or the call returns an error because one end has closed the connection
WriteOutcomes(x) == IF conn[x].open /\ conn[x].client THEN {"delivered"} ELSE {"error"}

\* connection x after frame f was written to it with outcome w
Written(x, f, w) ==
    IF w = "delivered"
    THEN [conn EXCEPT ![x].received = Append(@, f)]
    ELSE conn

\* the HandleWebSocket calls that have not returned
Serving == {c \in Conns : handler[c].pc \notin {"idle", "closed"}}

\* a HandleWebSocket call that has returned
HandlerDone == [pc |-> "closed", id |-> 0, term |-> 0, wait |-> 0]

\* the deferred calls that end the HandleWebSocket call for connection c,
\* which served terminal o: the one of handleTerminalMessages closes and
\* unbinds whatever connection the terminal has now, the one of
\* HandleWebSocket closes c
HandlerReturns(c, o, ts) ==
    /\ terms' = [ts EXCEPT ![o].Conn = 0]
    /\ conn' = [d \in Conns |->
                   IF d = c \/ d = ts[o].Conn THEN Closed(conn[d]) ELSE conn[d]]
    /\ handler' = [handler EXCEPT ![c] = HandlerDone]

\* handleTerminalMessages at the head of its loop, for connection c and
\* terminal o: terminal.Conn.ReadJSON is called on the connection the
\* terminal has now; on nil it panics, net/http recovers the panic, and the
\* deferred calls run
BeginRead(c, i, o, ts) ==
    IF ts[o].Conn = 0
    THEN HandlerReturns(c, o, ts)
    ELSE /\ handler' = [handler EXCEPT ![c] = [pc |-> "reading", id |-> i, term |-> o,
                                               wait |-> ts[o].Conn]]
         /\ terms' = ts
         /\ UNCHANGED conn

\* a client opens connection c to /ws/terminal/<i>: HandleWebSocket.  For a
\* session in the table it binds c, starts sendTerminalHistory and goes to
\* the message loop; for any other it leaves the critical section to create
\* the terminal.
HandleWebSocket(c, i) ==
    /\ crashed = "no"
    /\ handler[c].pc = "idle"
    /\ Cardinality(Serving) < MaxOpen
    /\ \A d \in Conns : d < c => handler[d].pc # "idle"
    /\ \A j \in SessionIds : j < i => \E o \in DOMAIN terms : terms[o].ID = j
    /\ IF terminals[i] # 0
       THEN /\ history' = [history EXCEPT ![c] = [pc |-> "start", term |-> terminals[i],
                                                  lines |-> << >>]]
            /\ handler' = [handler EXCEPT ![c] = [pc |-> "reading", id |-> i,
                                                  term |-> terminals[i], wait |-> c]]
            /\ terms' = [terms EXCEPT ![terminals[i]].Conn = c]
       ELSE /\ handler' = [handler EXCEPT ![c] = [pc |-> "create", id |-> i,
                                                  term |-> 0, wait |-> 0]]
            /\ UNCHANGED <<terms, history>>
    /\ conn' = [conn EXCEPT ![c] = [client |-> TRUE, open |-> TRUE, received |-> << >>]]
    /\ UNCHANGED <<crashed, terminals>>
    /\ UNCHANGED <<poolVars, appVars, storeVars, bufVars, fileVars>>
    /\ access' = [op |-> "lookup", mu |-> "Lock"]

\* createTerminal, called by HandleWebSocket for a session it did not find
createTerminal(c, started) ==
    /\ crashed = "no"
    /\ handler[c].pc = "create"
    /\ IF started
       THEN /\ terms' = Append(terms, NewTerminal(handler[c].id, c))
            /\ handler' = [handler EXCEPT ![c].pc = "store", ![c].term = Len(terms) + 1]
            /\ UNCHANGED conn
       ELSE /\ handler' = [handler EXCEPT ![c] = HandlerDone]
            /\ conn' = [conn EXCEPT ![c] = Closed(@)]
            /\ UNCHANGED terms
    /\ UNCHANGED <<crashed, terminals, history>>
    /\ UNCHANGED <<poolVars, appVars, storeVars, bufVars, fileVars, access>>

\* HandleWebSocket, lines 337-339: ts.terminals[terminalID] = terminal, and
\* on to the message loop
StoreTerminal(c) ==
    /\ crashed = "no"
    /\ handler[c].pc = "store"
    /\ terminals' = [terminals EXCEPT ![handler[c].id] = handler[c].term]
    /\ BeginRead(c, handler[c].id, handler[c].term, terms)
    /\ UNCHANGED <<crashed, history>>
    /\ UNCHANGED <<poolVars, appVars, storeVars, bufVars, fileVars>>
    /\ access' = [op |-> "insert", mu |-> "Lock"]

\* ReadJSON returns an input message, which is written to the pty; a failed
\* write ends the loop
ReadInput(c) ==
    /\ crashed = "no"
    /\ handler[c].pc = "reading"
    /\ conn[handler[c].wait].open
    /\ conn[handler[c].wait].client
    /\ IF terms[handler[c].term].child = "running"
       THEN BeginRead(c, handler[c].id, handler[c].term, terms)
       ELSE HandlerReturns(c, handler[c].term, terms)
    /\ UNCHANGED <<crashed, terminals, history>>
    /\ UNCHANGED <<poolVars, appVars, storeVars, bufVars, fileVars, access>>

\* ReadJSON returns an error: the connection it reads has been closed
ReadFails(c) ==
    /\ crashed = "no"
    /\ handler[c].pc = "reading"
    /\ ~(conn[handler[c].wait].open /\ conn[handler[c].wait].client)
    /\ HandlerReturns(c, handler[c].term, terms)
    /\ UNCHANGED <<crashed, terminals, history>>
    /\ UNCHANGED <<poolVars, appVars, storeVars, bufVars, fileVars, access>>

\* the client of connection c closes it
ClientDisconnects(c) ==
    /\ crashed = "no"
    /\ conn[c].client
    /\ c \in Serving
    /\ conn' = [conn EXCEPT ![c] = [client |-> FALSE, open |-> @.open, received |-> << >>]]
    /\ UNCHANGED <<crashed, terminals, terms, handler, history>>
    /\ UNCHANGED <<poolVars, appVars, storeVars, bufVars, fileVars, access>>

\* readFromPty: Read returns a chunk; it is put into the buffer; the test
\* terminal.Conn != nil is made
PtyOutput(o) ==
    /\ crashed = "no"
    /\ o \in DOMAIN terms
    /\ terms[o].pc = "read"
    /\ terms[o].child = "running"
    /\ terms[o].out < MaxChunks
    /\ terms' = [terms EXCEPT ![o].out = @ + 1,
                              ![o].Buffer = AddLine(@, terms[o].out + 1),
                              ![o].seen = terms[o].Conn,
                              ![o].pc = IF terms[o].Conn # 0 THEN "send" ELSE "read"]
    /\ UNCHANGED <<crashed, terminals, handler, conn, history>>
    /\ UNCHANGED <<poolVars, appVars, storeVars, bufVars, fileVars, access>>

\* readFromPty: terminal.Conn.WriteJSON(message).  The field is read a second
\* time without a lock: the build either reads it again (reload), and a nil
\* found there is an unrecovered panic, or uses the value it tested.
ForwardOutput(o, reload, w) ==
    /\ crashed = "no"
    /\ o \in DOMAIN terms
    /\ terms[o].pc = "send"
    /\ LET x == IF reload THEN terms[o].Conn ELSE terms[o].seen IN
       IF x = 0
       THEN Panic("nil Conn")
       ELSE /\ w \in WriteOutcomes(x)
            /\ conn' = Written(x, <<"output", terms[o].out>>, w)
            /\ terms' = [terms EXCEPT ![o].pc = "read", ![o].seen = 0,
                                      ![o].Conn = IF w = "error" THEN 0 ELSE @]
            /\ UNCHANGED <<crashed, terminals, handler, history>>
    /\ UNCHANGED <<poolVars, appVars, storeVars, bufVars, fileVars, access>>

\* the child shell exits on its own
ChildExits(o) ==
    /\ crashed = "no"
    /\ o \in DOMAIN terms
    /\ terms[o].child = "running"
    /\ Cardinality({p \in DOMAIN terms : terms[p].child = "exited"}) < MaxExits
    /\ terms' = [terms EXCEPT ![o].child = "exited"]
    /\ UNCHANGED <<crashed, terminals, handler, conn, history>>
    /\ UNCHANGED <<poolVars, appVars, storeVars, bufVars, fileVars, access>>

\* readFromPty: Read fails after the child has gone.  On io.EOF it calls
\* cleanupTerminal, which closes the connection and deletes the table entry
\* of the terminal's id; on any other error (EIO on Linux) it only returns.
PtyReadFails(o, eof) ==
    /\ crashed = "no"
    /\ o \in DOMAIN terms
    /\ terms[o].pc = "read"
    /\ terms[o].child # "running"
    /\ terms' = [terms EXCEPT ![o].pc = "done"]
    /\ IF eof
       THEN /\ conn' = IF terms[o].Conn # 0
                       THEN [conn EXCEPT ![terms[o].Conn] = Closed(@)]
                       ELSE conn
            /\ terminals' = [terminals EXCEPT ![terms[o].ID] = 0]
       ELSE UNCHANGED <<conn, terminals>>
    /\ UNCHANGED <<crashed, handler, history>>
    /\ UNCHANGED <<poolVars, appVars, storeVars, bufVars, fileVars>>
    /\ access' = IF eof THEN [op |-> "delete", mu |-> "none"] ELSE access

\* a sendTerminalHistory call that has returned
HistoryDone == [pc |-> "done", term |-> 0, lines |-> << >>]

\* sendTerminalHistory, up to the loop: the test of Conn and the snapshot
HistoryStarts(c) ==
    /\ crashed = "no"
    /\ history[c].pc = "start"
    /\ LET o == history[c].term IN
       IF terms[o].Conn = 0 \/ GetHistory(terms[o].Buffer) = << >>
       THEN history' = [history EXCEPT ![c] = HistoryDone]
       ELSE history' = [history EXCEPT ![c].pc = "loop",
                                       ![c].lines = GetHistory(terms[o].Buffer)]
    /\ UNCHANGED <<crashed, terminals, terms, handler, conn>>
    /\ UNCHANGED <<poolVars, appVars, storeVars, bufVars, fileVars, access>>

\* sendTerminalHistory, one turn of the loop: the next line goes as a
\* history frame to the connection the terminal has now
HistorySends(c, w) ==
    /\ crashed = "no"
    /\ history[c].pc = "loop"
    /\ LET o == history[c].term
           x == terms[o].Conn
       IN  IF history[c].lines = << >> \/ x = 0
           THEN /\ history' = [history EXCEPT ![c] = HistoryDone]
                /\ UNCHANGED <<terms, conn>>
           ELSE /\ w \in WriteOutcomes(x)
                /\ conn' = Written(x, <<"history", Head(history[c].lines)>>, w)
                /\ IF w = "error"
                   THEN /\ terms' = [terms EXCEPT ![o].Conn = 0]
                        /\ history' = [history EXCEPT ![c] = HistoryDone]
                   ELSE /\ history' = IF Tail(history[c].lines) = << >>
                                       THEN [history EXCEPT ![c] = HistoryDone]
                                       ELSE [history EXCEPT ![c].lines = Tail(@)]
                        /\ UNCHANGED terms
    /\ UNCHANGED <<crashed, terminals, handler>>
    /\ UNCHANGED <<poolVars, appVars, storeVars, bufVars, fileVars, access>>

\* readFromPty deletes from ts.terminals without ts.mu while the handler of
\* connection c is at its insert: the Go runtime ends the process when it
\* detects the two writes to the map (fatal error: concurrent map writes)
ConcurrentMapWrites(o, c) ==
    /\ crashed = "no"
    /\ o \in DOMAIN terms
    /\ terms[o].pc = "read"
    /\ terms[o].child # "running"
    /\ handler[c].pc = "store"
    /\ Panic("concurrent map writes")
    /\ access' = [op |-> "delete", mu |-> "none"]
    /\ UNCHANGED <<poolVars, appVars, storeVars, bufVars, fileVars>>

\* readFromPty and sendTerminalHistory are both inside WriteJSON on the same
\* connection: the websocket library panics on a concurrent write
ConcurrentWrite(o, c) ==
    /\ crashed = "no"
    /\ o \in DOMAIN terms
    /\ terms[o].pc = "send"
    /\ terms[o].Conn # 0
    /\ history[c].pc = "loop"
    /\ history[c].term = o
    /\ history[c].lines # << >>
    /\ Panic("concurrent write")
    /\ UNCHANGED <<poolVars, appVars, storeVars, bufVars, fileVars, access>>

\* the task file of the repository switched to: absent, or a board of one task
RepoFiles ==
    {[exists |-> FALSE, data |-> << >>],
     [exists |-> TRUE, data |-> Marshal(<<Task(1, <<"T">>, "todo", "medium")>>)]}

\* App.SetActiveRepository: the task service is pointed at the task file of
\* the new repository and loads it (or creates it); the terminal service is
\* not touched
SetActiveRepository(f, io) ==
    /\ crashed = "no"
    /\ IF f.exists
       THEN /\ tasks' = Reloaded(f, tasks)
            /\ file' = f
            /\ last' = Op("switch", 0, "", "", "none", "ok")
       ELSE /\ tasks' = << >>
            /\ file' = AtomicWriteJSON(f, << >>, io)
            /\ last' = Op("switch", 0, "missing", "", "none",
                          IF SaveErr(io) THEN "save_failed" ELSE "ok")
    /\ UNCHANGED <<branches, merged, checkedOut, agent, spawns>>
    /\ UNCHANGED <<poolVars, termVars, storeVars, bufVars, fileVars>>

NextTerm ==
    \/ \E f \in RepoFiles, io \in {"ok", "write_fail"} : SetActiveRepository(f, io)
    \/ \E c \in Conns, i \in SessionIds : HandleWebSocket(c, i)
    \/ \E c \in Conns, started \in BOOLEAN : createTerminal(c, started)
    \/ \E c \in Conns : StoreTerminal(c)
    \/ \E c \in Conns : ReadInput(c)
    \/ \E c \in Conns : ReadFails(c)
    \/ \E c \in Conns : ClientDisconnects(c)
    \/ \E o \in 1..MaxConns : PtyOutput(o)
    \/ \E o \in 1..MaxConns, reload \in BOOLEAN, w \in {"delivered", "error"} :
          ForwardOutput(o, reload, w)
    \/ \E o \in 1..MaxConns : ChildExits(o)
    \/ \E o \in 1..MaxConns, eof \in BOOLEAN : PtyReadFails(o, eof)
    \/ \E c \in Conns : HistoryStarts(c)
    \/ \E c \in Conns, w \in {"delivered", "error"} : HistorySends(c, w)
    \/ \E o \in 1..MaxConns, c \in Conns : ConcurrentWrite(o, c)
    \/ \E o \in 1..MaxConns, c \in Conns : ConcurrentMapWrites(o, c)

InitTermSpec == errexitArith = FALSE /\ InitPool /\ InitAppIdle /\ InitTerm /\ InitStore /\ InitBuf /\ InitFile

SpecTerm == InitTermSpec /\ [][NextTerm]_vars

(***************************************************************************)
(* One TerminalBuffer on its own: app.go (TerminalBuffer.AddLine)          *)
(***************************************************************************)
\* the lengths a line can have: a short one, one that fills the buffer to the
\* byte limit exactly at the line limit, and a full read buffer
LineLens == {SmallLine, MidLine, ReadBufferSize}

\* readFromPty hands the next chunk of a detached session to AddLine
BufferAddLine ==
    /\ appended < MaxAppends
    /\ Lines' = AddLine(Lines, appended + 1)
    /\ appended' = appended + 1
    /\ UNCHANGED lens
    /\ UNCHANGED <<poolVars, appVars, termVars, storeVars, fileVars>>

NextBuffer == BufferAddLine

\* a new buffer, and the lengths of the lines the child will print
InitBufferSpec ==
    /\ errexitArith = FALSE /\ InitPool /\ InitAppIdle /\ InitTerm /\ InitStore /\ InitFile
    /\ Lines = << >>
    /\ appended = 0
    /\ lens \in [a : LineLens, b : LineLens, switch : 0..MaxAppends]

SpecBuffer == InitBufferSpec /\ [][NextBuffer]_vars

(***************************************************************************)
(* One AtomicWriteJSON call after the other: file_utils.go                 *)
(***************************************************************************)
\* the lists written and the task files found
WriteInputs == {<< >>, Board0, <<Task(1, <<"T">>, "doing", "medium")>>}

FilesFound ==
    {[exists |-> FALSE, data |-> << >>],
     [exists |-> TRUE, data |-> Marshal(<< >>)],
     [exists |-> TRUE, data |-> Marshal(Board0)]}

\* AtomicWriteJSON is called with a list
BeginAtomicWriteJSON(list) ==
    /\ aw.pc \in {"idle", "done"}
    /\ aw.n < MaxWrites
    /\ aw' = [NoWrite EXCEPT !.pc = "backup", !.data = list, !.before = file,
                             !.tornBefore = torn, !.n = aw.n + 1]
    /\ UNCHANGED <<file, tmpFile, backupFile, torn>>
    /\ UNCHANGED <<tasks, branches, merged, checkedOut, agent, spawns, last>>
    /\ UNCHANGED <<poolVars, termVars, storeVars, bufVars>>

\* a failed backup that ends the save with its error
CreateBackup_Blocking(o) ==
    /\ aw.pc = "backup"
    /\ IF ~file.exists
       THEN /\ o = "ok"
            /\ aw' = [aw EXCEPT !.pc = "write", !.backup = "no_file"]
            /\ UNCHANGED backupFile
       ELSE CASE o = "ok" ->
                   /\ backupFile' = "whole"
                   /\ aw' = [aw EXCEPT !.pc = "write", !.backup = "ok", !.backupPath = TRUE]
              [] o = "open_fail" ->
                   /\ UNCHANGED backupFile
                   /\ aw' = [aw EXCEPT !.pc = "done", !.backup = "failed",
                                        !.err = "backup_failed"]
              [] o = "copy_fail" ->
                   /\ backupFile' = "partial"
                   /\ aw' = [aw EXCEPT !.pc = "done", !.backup = "failed",
                                        !.err = "backup_failed"]
    /\ UNCHANGED <<file, tmpFile, torn>>
    /\ UNCHANGED <<tasks, branches, merged, checkedOut, agent, spawns, last>>
    /\ UNCHANGED <<poolVars, termVars, storeVars, bufVars>>

\* CreateBackup: "" and no error when there is no file; else CopyFile to the
\* backup path, which can fail before it created the copy or while copying.
\* AtomicWriteJSON logs the error and goes on without a backup path.
CreateBackup(o) ==
    /\ aw.pc = "backup"
    /\ IF ~file.exists
       THEN /\ o = "ok"
            /\ aw' = [aw EXCEPT !.pc = "write", !.backup = "no_file"]
            /\ UNCHANGED backupFile
       ELSE CASE o = "ok" ->
                   /\ backupFile' = "whole"
                   /\ aw' = [aw EXCEPT !.pc = "write", !.backup = "ok", !.backupPath = TRUE]
              [] o = "open_fail" ->
                   /\ UNCHANGED backupFile
                   /\ aw' = [aw EXCEPT !.pc = "write", !.backup = "failed"]
              [] o = "copy_fail" ->
                   /\ backupFile' = "partial"
                   /\ aw' = [aw EXCEPT !.pc = "write", !.backup = "failed"]
    /\ UNCHANGED <<file, tmpFile, torn>>
    /\ UNCHANGED <<tasks, branches, merged, checkedOut, agent, spawns, last>>
    /\ UNCHANGED <<poolVars, termVars, storeVars, bufVars>>

\* AtomicWrite, lines 57-66: MkdirAll and os.WriteFile of the temporary file.
\* WriteFile can fail before it created the file, or after (the disk is
\* full); AtomicWrite returns the error and leaves what WriteFile left.
WriteTemporary(o) ==
    /\ aw.pc = "write"
    /\ CASE o = "ok" ->
              /\ tmpFile' = tmpFile + 1
              /\ aw' = [aw EXCEPT !.pc = "rename", !.write = "ok"]
         [] o = "open_fail" ->
              /\ UNCHANGED tmpFile
              /\ aw' = [aw EXCEPT !.pc = "rollback", !.write = "failed", !.err = "write_failed"]
         [] o = "write_fail" ->
              /\ tmpFile' = tmpFile + 1
              /\ aw' = [aw EXCEPT !.pc = "rollback", !.write = "failed", !.err = "write_failed"]
    /\ UNCHANGED <<file, backupFile, torn>>
    /\ UNCHANGED <<tasks, branches, merged, checkedOut, agent, spawns, last>>
    /\ UNCHANGED <<poolVars, termVars, storeVars, bufVars>>

\* AtomicWrite, lines 74-78: os.Rename, and os.Remove of the temporary file
\* when it fails
RenameTemporary(ok) ==
    /\ aw.pc = "rename"
    /\ tmpFile' = tmpFile - 1
    /\ IF ok
       THEN /\ file' = [exists |-> TRUE, data |-> Marshal(aw.data)]
            /\ torn' = FALSE
            /\ aw' = [aw EXCEPT !.pc = "done", !.err = "ok"]
       ELSE /\ aw' = [aw EXCEPT !.pc = "rollback", !.write = "rename_failed",
                                !.err = "rename_failed"]
            /\ UNCHANGED <<file, torn>>
    /\ UNCHANGED backupFile
    /\ UNCHANGED <<tasks, branches, merged, checkedOut, agent, spawns, last>>
    /\ UNCHANGED <<poolVars, termVars, storeVars, bufVars>>

\* AtomicWriteJSON, lines 39-48: Rollback when there is a backup path, its
\* error logged; the error of the write is returned.  Rollback is CopyFile
\* of the backup over the task file: os.Create truncates the task file and
\* io.Copy fills it, and either can fail.
Rollback(o) ==
    /\ aw.pc = "rollback"
    /\ aw' = [aw EXCEPT !.pc = "done"]
    /\ IF ~aw.backupPath
       THEN /\ o = "ok"
            /\ UNCHANGED <<file, torn>>
       ELSE CASE o = "ok" -> file' = aw.before /\ torn' = aw.tornBefore
              [] o = "open_fail" -> UNCHANGED <<file, torn>>
              [] o = "copy_fail" -> torn' = TRUE /\ UNCHANGED file
    /\ UNCHANGED <<tmpFile, backupFile>>
    /\ UNCHANGED <<tasks, branches, merged, checkedOut, agent, spawns, last>>
    /\ UNCHANGED <<poolVars, termVars, storeVars, bufVars>>

CopyOutcomes == {"ok", "open_fail", "copy_fail"}

NextFile ==
    \/ \E list \in WriteInputs : BeginAtomicWriteJSON(list)
    \/ \E o \in CopyOutcomes : CreateBackup(o)
    \/ \E o \in {"ok", "open_fail", "write_fail"} : WriteTemporary(o)
    \/ \E ok \in BOOLEAN : RenameTemporary(ok)
    \/ \E o \in CopyOutcomes : Rollback(o)

InitFileSpec ==
    /\ errexitArith = FALSE /\ InitPool /\ InitTerm /\ InitStore /\ InitBuf /\ InitFile
    /\ tasks = << >>
    /\ file \in FilesFound
    /\ branches = {}
    /\ merged = {}
    /\ checkedOut = {}
    /\ agent = [t \in TaskIds |-> "none"]
    /\ spawns = << >>
    /\ last = NoOp

SpecFile == InitFileSpec /\ [][NextFile]_vars

(***************************************************************************)
(* Concurrent calls of TaskService (part_004)                              *)
(***************************************************************************)
\* sync.RWMutex: Lock waits until no writer and no reader holds the mutex
CanLock == mu.w = 0 /\ mu.r = {}

\* RLock waits until no writer holds the mutex
CanRLock == mu.w = 0

Busy == {g \in Callers : calls[g].pc # "idle"}

\* goroutines are taken in order, and at most MaxBusy are busy at a time
MayCall(g) ==
    /\ calls[g].pc = "idle"
    /\ \A h \in Callers : h < g => calls[h].pc # "idle"
    /\ Cardinality(Busy) < MaxBusy

\* the goroutine got the mutex for writing and is in the body of op
Locked(g, o, list, task, i, st) ==
    /\ mu' = [mu EXCEPT !.w = g]
    /\ calls' = [calls EXCEPT ![g] =
                    [NoCall EXCEPT !.pc = "locked", !.op = o, !.list = list,
                                   !.task = task, !.id = i, !.status = st]]

\* the goroutine got the mutex for reading
RLocked(g, o, st) ==
    /\ mu' = [mu EXCEPT !.r = @ \cup {g}]
    /\ calls' = [calls EXCEPT ![g] = [NoCall EXCEPT !.pc = "locked", !.op = o, !.status = st]]

\* a slice a caller got back that shares its array with ts.tasks: elements
\* 1..n of the array were written with those of new
Overwrite(r, new, n) ==
    IF r.pc = "done" /\ r.alias
    THEN [r EXCEPT !.val = [k \in 1..Len(r.val) |-> IF k <= n THEN new[k] ELSE r.val[k]]]
    ELSE r

\* ts.tasks got another array
Detach(r) == [r EXCEPT !.alias = FALSE]

\* the call of g returned list v with error e: v shares its array with
\* ts.tasks (shared) or is a copy
Returns(r, e, v, shared) ==
    [NoCall EXCEPT !.pc = "done", !.op = r.op, !.err = e, !.val = v,
                   !.alias = shared, !.snap = v]

\* the capacities the slice decoded or passed in may have
NewCaps(n) == n..(IF n > MaxCap THEN n ELSE MaxCap)

\* LoadTasks, lines 32-33
BeginLoadTasks(g) ==
    /\ MayCall(g)
    /\ CanLock
    /\ Locked(g, "load", << >>, ZeroTask, 0, "")
    /\ UNCHANGED <<capacity, appVars>>
    /\ UNCHANGED <<poolVars, termVars, bufVars, fileVars>>

\* LoadTasks, lines 36-57: json.Unmarshal writes the elements the array has
\* room for in place and moves to a larger array when it has not; an empty
\* document gives a new empty slice; a missing file gives []Task{} and is
\* created.  ts.tasks itself is returned.
EndLoadTasks(g, io, c) ==
    /\ calls[g].pc = "locked"
    /\ calls[g].op = "load"
    /\ IF file.exists
       THEN LET m == Len(file.data)
                nt == Reloaded(file, tasks)
                inplace == IF m < capacity THEN m ELSE capacity
                moved == m = 0 \/ m > capacity
            IN /\ io = "ok"
               /\ c \in (IF m = 0 THEN {0} ELSE IF moved THEN NewCaps(m) ELSE {capacity})
               /\ tasks' = nt
               /\ capacity' = c
               /\ calls' = [h \in Callers |->
                              IF h = g THEN Returns(calls[g], "ok", nt, TRUE)
                              ELSE IF moved THEN Detach(Overwrite(calls[h], nt, inplace))
                              ELSE Overwrite(calls[h], nt, inplace)]
               /\ last' = Op("load", 0, "", "", "none", "ok")
               /\ UNCHANGED file
       ELSE /\ c = 0
            /\ tasks' = << >>
            /\ capacity' = 0
            /\ file' = AtomicWriteJSON(file, << >>, io)
            /\ calls' = [h \in Callers |->
                           IF h = g
                           THEN Returns(calls[g], IF SaveErr(io) THEN "save_failed" ELSE "ok",
                                        << >>, TRUE)
                           ELSE Detach(calls[h])]
            /\ last' = Op("load", 0, "", "", "none", IF SaveErr(io) THEN "save_failed" ELSE "ok")
    /\ mu' = [mu EXCEPT !.w = 0]
    /\ UNCHANGED <<branches, merged, checkedOut, agent, spawns>>
    /\ UNCHANGED <<poolVars, termVars, bufVars, fileVars>>

\* SaveTasks, lines 62-63
BeginSaveTasks(g, list) ==
    /\ MayCall(g)
    /\ CanLock
    /\ Locked(g, "save", list, ZeroTask, 0, "")
    /\ UNCHANGED <<capacity, appVars>>
    /\ UNCHANGED <<poolVars, termVars, bufVars, fileVars>>

\* UpdateTask, lines 83-84
BeginUpdateTask(g, task) ==
    /\ MayCall(g)
    /\ CanLock
    /\ Locked(g, "update", << >>, task, task.id, "")
    /\ UNCHANGED <<capacity, appVars>>
    /\ UNCHANGED <<poolVars, termVars, bufVars, fileVars>>

\* MoveTask, lines 117-123: a status that does not parse is turned down
\* before the mutex is asked for
BeginMoveTask(g, i, newStatus) ==
    /\ MayCall(g)
    /\ IF ~StatusValid(newStatus)
       THEN /\ last' = Op("move", 0, "", "", "none", "invalid_status")
            /\ UNCHANGED <<storeVars, tasks, file>>
       ELSE /\ CanLock
            /\ Locked(g, "move", << >>, ZeroTask, i, newStatus)
            /\ UNCHANGED <<capacity, tasks, file, last>>
    /\ UNCHANGED <<branches, merged, checkedOut, agent, spawns>>
    /\ UNCHANGED <<poolVars, termVars, bufVars, fileVars>>

\* what the body of the writer g is in does up to its saveTasks call, as
\* [err, tasks, file]
Body(r) ==
    IF r.op = "save" THEN TS_SaveTasks(tasks, file, r.list, "ok")
    ELSE IF r.op = "update" THEN TS_UpdateTask(tasks, file, r.task, "ok")
    ELSE TS_MoveTask(tasks, file, r.id, r.status, "ok")

\* SaveTasks lines 66-71, UpdateTask lines 87-103, MoveTask lines 126-139:
\* a call turned down returns and unlocks; otherwise ts.tasks is assigned
\* (SaveTasks: the caller's slice; UpdateTask and MoveTask: one element of
\* the array, in place)
Assign(g, c) ==
    /\ calls[g].pc = "locked"
    /\ calls[g].op \in {"save", "update", "move"}
    /\ LET r == calls[g]
           b == Body(r)
       IN IF b.err \in {"validation", "not_found"}
          THEN /\ c = capacity
               /\ last' = Op(r.op, 0, "", "", "none", b.err)
               /\ mu' = [mu EXCEPT !.w = 0]
               /\ calls' = [calls EXCEPT ![g] = NoCall]
               /\ UNCHANGED <<tasks, capacity>>
          ELSE /\ c \in (IF r.op = "save" THEN NewCaps(Len(r.list)) ELSE {capacity})
               /\ tasks' = b.tasks
               /\ capacity' = c
               /\ calls' = [h \in Callers |->
                              IF h = g THEN [r EXCEPT !.pc = "save"]
                              ELSE IF r.op = "save" THEN Detach(calls[h])
                              ELSE Overwrite(calls[h], b.tasks, Len(b.tasks))]
               /\ UNCHANGED <<mu, last>>
    /\ UNCHANGED <<file, branches, merged, checkedOut, agent, spawns>>
    /\ UNCHANGED <<poolVars, termVars, bufVars, fileVars>>

\* saveTasks and the deferred Unlock
Persist(g, io) ==
    /\ calls[g].pc = "save"
    /\ LET r == calls[g]
           w == saveTasks(tasks, file, io)
       IN /\ file' = w.file
          /\ last' = Op(r.op, 0, "", "", "none", w.err)
    /\ mu' = [mu EXCEPT !.w = 0]
    /\ calls' = [calls EXCEPT ![g] = NoCall]
    /\ UNCHANGED <<tasks, capacity, branches, merged, checkedOut, agent, spawns>>
    /\ UNCHANGED <<poolVars, termVars, bufVars, fileVars>>

\* GetTasks, lines 173-174
BeginGetTasks(g) ==
    /\ MayCall(g)
    /\ CanRLock
    /\ RLocked(g, "get", "")
    /\ UNCHANGED <<capacity, appVars>>
    /\ UNCHANGED <<poolVars, termVars, bufVars, fileVars>>

\* GetTasks, lines 177-179: a copy is returned
EndGetTasks(g) ==
    /\ calls[g].pc = "locked"
    /\ calls[g].op = "get"
    /\ calls' = [calls EXCEPT ![g] = Returns(calls[g], "ok", tasks, FALSE)]
    /\ mu' = [mu EXCEPT !.r = @ \ {g}]
    /\ UNCHANGED <<capacity, appVars>>
    /\ UNCHANGED <<poolVars, termVars, bufVars, fileVars>>

\* GetTasksByStatus, lines 152-153
BeginGetTasksByStatus(g, status) ==
    /\ MayCall(g)
    /\ CanRLock
    /\ RLocked(g, "filter", status)
    /\ UNCHANGED <<capacity, appVars>>
    /\ UNCHANGED <<poolVars, termVars, bufVars, fileVars>>

\* the tasks of list in status st, in list order
Filtered(list, st) == SelectSeq(list, LAMBDA x : x.status = st)

\* GetTasksByStatus, lines 156-168
EndGetTasksByStatus(g) ==
    /\ calls[g].pc = "locked"
    /\ calls[g].op = "filter"
    /\ calls' = [calls EXCEPT ![g] =
                    IF StatusValid(calls[g].status)
                    THEN Returns(calls[g], "ok", Filtered(tasks, calls[g].status), FALSE)
                    ELSE Returns(calls[g], "invalid_status", << >>, FALSE)]
    /\ mu' = [mu EXCEPT !.r = @ \ {g}]
    /\ UNCHANGED <<capacity, appVars>>
    /\ UNCHANGED <<poolVars, termVars, bufVars, fileVars>>

\* the caller is done with the list it got back
Release(g) ==
    /\ calls[g].pc = "done"
    /\ calls' = [calls EXCEPT ![g] = NoCall]
    /\ UNCHANGED <<mu, capacity, appVars>>
    /\ UNCHANGED <<poolVars, termVars, bufVars, fileVars>>

\* a board of two tasks, one with dependencies and a parent
Board2 ==
    <<Task(1, <<"T">>, "todo", "medium"),
      TaskOf(2, <<"U">>, "doing", "high", Slice(<<1>>), Ptr(1))>>

\* the lists given to SaveTasks: the board, a task with an empty dependency
\* list, a list where id 1 occurs twice, the empty list, and one list for
\* each defect validateTasks looks for
StoreLists ==
    {Board2,
     <<TaskOf(1, <<"T">>, "todo", "low", Slice(<< >>), NilPtr)>>,
     <<Task(1, <<"T">>, "todo", "medium"), Task(1, <<"U">>, "backlog", "medium")>>,
     << >>,
     <<Task(1, << >>, "todo", "medium")>>,
     <<Task(1, <<"T">>, "blocked", "medium")>>,
     <<Task(1, <<"T">>, "todo", "urgent")>>}

\* the tasks given to UpdateTask: a well-formed one, one with an empty title
StoreUpdates == {Task(1, <<"V">>, "done", "low"), Task(1, << >>, "todo", "medium")}

\* the writes of this specification reach the disk (what a failed write
\* leaves is followed in Spec)
StoreIO == {"ok"}

\* the statuses given to MoveTask and GetTasksByStatus
StoreStatuses == {"doing", "blocked"}

NextStore ==
    \/ \E g \in Callers : BeginLoadTasks(g)
    \/ \E g \in Callers, io \in StoreIO, c \in 0..(MaxCap + 1) : EndLoadTasks(g, io, c)
    \/ \E g \in Callers, list \in StoreLists : BeginSaveTasks(g, list)
    \/ \E g \in Callers, task \in StoreUpdates : BeginUpdateTask(g, task)
    \/ \E g \in Callers, i \in 1..2, st \in StoreStatuses : BeginMoveTask(g, i, st)
    \/ \E g \in Callers, c \in 0..(MaxCap + 1) : Assign(g, c)
    \/ \E g \in Callers, io \in StoreIO : Persist(g, io)
    \/ \E g \in Callers : BeginGetTasks(g)
    \/ \E g \in Callers : EndGetTasks(g)
    \/ \E g \in Callers, st \in StoreStatuses : BeginGetTasksByStatus(g, st)
    \/ \E g \in Callers : EndGetTasksByStatus(g)
    \/ \E g \in Callers : Release(g)

InitStoreSpec == errexitArith = FALSE /\ InitPool /\ InitAppIdle /\ InitTerm /\ InitStore /\ InitBuf /\ InitFile

SpecStore == InitStoreSpec /\ [][NextStore]_vars

(***************************************************************************)
(* Concurrent calls of App: MoveTask, ApproveTask, RejectTask (app.go)     *)
(***************************************************************************)
\* goroutine g is in no call of App
NoAppCall ==
    [pc |-> "idle", op |-> "", id |-> 0, to |-> "", old |-> "", task |-> ZeroTask,
     err |-> "", spawned |-> FALSE, git |-> FALSE]

\* a call of App that has returned e
Returned_(c, e) == [c EXCEPT !.pc = "done", !.err = e]

\* the first lines of App.MoveTask, App.ApproveTask and App.RejectTask:
\* GetTasks and the loop over the copy, which finds the task and its status
App_GetTasks(g, o, i, s) ==
    /\ calls[g].pc = "idle"
    /\ \A h \in Callers : h < g => calls[h].pc # "idle"
    /\ LET c == [NoAppCall EXCEPT !.op = o, !.id = i, !.to = s] IN
       IF o = "move"
       THEN calls' = [calls EXCEPT ![g] =
                IF IndexOf(tasks, i) = 0 THEN Returned_(c, "not_found")
                ELSE [c EXCEPT !.pc = "move", !.old = StatusOf(tasks, i)]]
       ELSE calls' = [calls EXCEPT ![g] =
                IF RequireReview(tasks, i) # "ok" THEN Returned_(c, RequireReview(tasks, i))
                ELSE [c EXCEPT !.pc = "git", !.task = tasks[IndexOf(tasks, i)]]]
    /\ UNCHANGED <<mu, capacity>>
    /\ UNCHANGED appVars
    /\ UNCHANGED <<poolVars, termVars, bufVars, fileVars>>

\* App.MoveTask, lines 319-333: TaskService.MoveTask, and the go func() of
\* the launch when the status read at the start was todo and doing is asked
App_MoveTask(g, io) ==
    /\ calls[g].pc = "move"
    /\ LET c == calls[g]
           r == TS_MoveTask(tasks, file, c.id, c.to, io)
           launch == r.err = "ok" /\ ShouldLaunch(c.old, c.to)
       IN  /\ tasks' = r.tasks
           /\ file' = r.file
           /\ spawns' = IF launch THEN Append(spawns, c.id) ELSE spawns
           /\ calls' = [calls EXCEPT ![g] = [Returned_(c, r.err) EXCEPT !.spawned = launch]]
    /\ UNCHANGED <<mu, capacity>>
    /\ UNCHANGED <<branches, merged, checkedOut, agent, last>>
    /\ UNCHANGED <<poolVars, termVars, bufVars, fileVars>>

\* App.ApproveTask, line 363, and App.RejectTask, line 400: the call of
\* AgentService
App_Git(g, mergeOk) ==
    /\ calls[g].pc = "git"
    /\ LET c == calls[g]
           a == IF c.op = "approve"
                THEN AS_ApproveTask(branches, merged, checkedOut, c.id, mergeOk)
                ELSE [err |-> AS_RejectTask(branches, checkedOut, c.id).err,
                      branches |-> AS_RejectTask(branches, checkedOut, c.id).branches,
                      merged |-> merged]
       IN  /\ c.op = "reject" => mergeOk
           /\ branches' = a.branches
           /\ merged' = a.merged
           /\ calls' = [calls EXCEPT ![g] =
                           IF a.err # "ok" THEN Returned_(c, a.err)
                           ELSE [c EXCEPT !.pc = "update", !.git = TRUE]]
    /\ UNCHANGED <<mu, capacity>>
    /\ UNCHANGED <<tasks, file, checkedOut, agent, spawns, last>>
    /\ UNCHANGED <<poolVars, termVars, bufVars, fileVars>>

\* App.ApproveTask, lines 368-372, and App.RejectTask, lines 404-412: the
\* copy of the task read at the start is changed and given to UpdateTask
App_UpdateTask(g, io) ==
    /\ calls[g].pc = "update"
    /\ LET c == calls[g]
           task == IF c.op = "approve"
                   THEN [c.task EXCEPT !.status = "done"]
                   ELSE [c.task EXCEPT !.title = MarkNotMerged(c.task.title),
                                       !.status = "done"]
           u == TS_UpdateTask(tasks, file, task, io)
       IN  /\ tasks' = u.tasks
           /\ file' = u.file
           /\ calls' = [calls EXCEPT ![g] = Returned_(c, u.err)]
    /\ UNCHANGED <<mu, capacity>>
    /\ UNCHANGED <<branches, merged, checkedOut, agent, spawns, last>>
    /\ UNCHANGED <<poolVars, termVars, bufVars, fileVars>>

\* the boards the calls start from: one task in todo, one task in review
\* with its branch, or two tasks with the agent of the second at work
BoardReview == <<Task(1, <<"T">>, "pending_review", "medium")>>

AppOps == {"move", "approve", "reject"}

AppIO == {"ok", "write_fail"}

NextCalls ==
    \/ \E g \in Callers, o \in AppOps, i \in TaskIds :
          App_GetTasks(g, o, i, IF o = "move" THEN "doing" ELSE "")
    \/ \E g \in Callers, io \in AppIO : App_MoveTask(g, io)
    \/ \E g \in Callers, mergeOk \in BOOLEAN : App_Git(g, mergeOk)
    \/ \E g \in Callers, io \in AppIO : App_UpdateTask(g, io)
    \/ \E t \in TaskIds : AgentMarksReview(t)

InitCallsSpec ==
    /\ errexitArith = FALSE /\ InitPool /\ InitTerm /\ InitBuf /\ InitFile
    /\ mu = [w |-> 0, r |-> {}]
    /\ capacity = 0
    /\ calls = [g \in Callers |-> NoAppCall]
    /\ \/ tasks = Board0 /\ branches = {} /\ agent = [t \in TaskIds |-> "none"]
       \/ tasks = BoardReview /\ branches = {1} /\ agent = [t \in TaskIds |-> "none"]
       \/ tasks = Board2 /\ branches = {2}
             /\ agent = [t \in TaskIds |-> IF t = 2 THEN "running" ELSE "none"]
    /\ file = [exists |-> TRUE, data |-> Marshal(tasks)]
    /\ merged = {}
    /\ checkedOut = {t \in TaskIds : agent[t] = "running"}
    /\ spawns = << >>
    /\ last = NoOp

SpecCalls == InitCallsSpec /\ [][NextCalls]_vars

(***************************************************************************)
(* Claims about the worktree pool                                          *)
(***************************************************************************)
\* the worktrees whose lock names a live process
BusyWorktrees == {n \in dirs \cap DOMAIN lease : Alive(lease[n].pid)}

\* a run holds its worktree from its selection until its last process ends
Owns(p) == WORKTREE_NUM[p] # 0 /\ (ScriptRunning(p) \/ SubshellRunning(p))

\* C1: after any launches, agent exits and reclamations, the worktrees whose
\* lock names a live process number at most MAX_SUBAGENTS.
C1_BusyAtMostMax == Cardinality(BusyWorktrees) <= MAX_SUBAGENTS

\* the pool is saturated and a further launch was refused for it
C1_Witness ==
    /\ Cardinality(BusyWorktrees) = MAX_SUBAGENTS
    /\ \E p \in Invocations :
          pc[p] = "failed_full"

\* C2: under any interleaving of launches a worktree is held by at most one
\* run at a time: between a run selecting it and that run's agent ending, no
\* other run selects, prepares or runs an agent in it.
C2_ExclusiveOwnership ==
    \A p, q \in Invocations :
        (p # q /\ TASK_ID[p] # TASK_ID[q] /\ Owns(p) /\ Owns(q))
            => WORKTREE_NUM[p] # WORKTREE_NUM[q]

\* run p is the only script in progress
RunsAlone(p) == \A q \in Invocations \ {p} : ~ScriptRunning(q)

\* the cleanup loop of run p, for another task, is at a lock whose process has
\* exited, and p steps
AtDeadLock(p) ==
    /\ pc[p] = "clean"
    /\ RunsAlone(p)
    /\ idx[p] \in DOMAIN lease
    /\ ~Alive(lease[idx[p]].pid)
    /\ lease[idx[p]].task_id # TASK_ID[p]
    /\ <<pc[p], idx[p]>> # <<pc'[p], idx'[p]>>

\* C3: when a worktree's lock names a process that has exited, the next launch
\* purges the lock and goes on (it does not fail), takes that same worktree
\* without creating another, and the lock it writes there names the new task.
C3_StaleLeaseReused ==
    /\ [][\A p \in Invocations :
            AtDeadLock(p) => (idx[p] \notin DOMAIN lease' /\ pc'[p] \notin Failures)]_vars
    /\ [](\A p \in Invocations : \A n \in stale_cleaned[p] :
            /\ pc[p] \notin {"count", "create"}
            /\ WORKTREE_NUM[p] # 0 => WORKTREE_NUM[p] = n
            /\ (sub[p] = "claude" /\ n \in DOMAIN lease) => lease[n].task_id = TASK_ID[p])

(***************************************************************************)
(* Claims about moves, launches and reviews                                *)
(***************************************************************************)
\* the last call was o and it returned success
Returned(o) == last.op = o /\ last.result = "ok"

\* the status and the title of task i in the task file
FileStatus(i) == StatusOf(Parsed(file), i)

FileTitle(i) == TitleOf(Parsed(file), i)

\* C4: a launch is dispatched exactly by a move_task that succeeds on a task
\* that was in todo and goes to doing; no other successful move, and no
\* update_task, save_tasks or load, dispatches one.
C4_SpawnIffTodoToDoing ==
    [][/\ Len(spawns') > Len(spawns)
          <=> (last'.op = "move" /\ last'.result = "ok"
                 /\ last'.from = "todo" /\ last'.to = "doing")
       /\ Len(spawns') > Len(spawns)
          => spawns' = Append(spawns, last'.id)]_vars

\* a move from todo to doing returned success and its launch is in flight
C4_Witness ==
    /\ Returned("move")
    /\ last.from = "todo"
    /\ last.to = "doing"
    /\ spawns = <<last.id>>

\* C5: a todo-to-doing move that succeeds leaves doing in the task file, and
\* a launch that fails changes neither the task file nor the task list.
C5_FailedLaunchKeepsDoing ==
    [][/\ (last'.op = "move" /\ last'.result = "ok"
             /\ last'.from = "todo" /\ last'.to = "doing")
          => StatusOf(Parsed(file'), last'.id) = "doing"
       /\ (last'.op = "launch" /\ last'.result = "failed")
          => (file' = file /\ tasks' = tasks)]_vars

\* the launch of a task failed and the task file shows the task in doing
C5_Witness ==
    /\ last.op = "launch"
    /\ last.result = "failed"
    /\ FileStatus(last.id) = "doing"
    /\ agent[last.id] = "none"

\* C6: whenever approve_task returns success, the branch task_<id> no longer
\* exists and the task's persisted status is done.
C6_ApprovedBranchGone ==
    Returned("approve") => (last.id \notin branches /\ FileStatus(last.id) = "done")

C8_NothingBeforeMerge ==
    [][last'.op = "approve"
          => /\ last'.result \in {"no_branch", "merge_failed"}
                => (last'.id \notin merged' \ merged
                      /\ UNCHANGED <<branches, tasks, file>>)
             /\ branches' # branches => last'.id \in merged']_vars

\* an approval failed at the merge and the branch is still there
C8_Witness ==
    /\ last.op = "approve"
    /\ last.result = "merge_failed"
    /\ last.id \in branches
    /\ last.id \notin checkedOut
    /\ StatusOf(tasks, last.id) = "pending_review"

\* C9: approve_task and reject_task on a task that is not in pending_review,
\* or on an unknown id, return an error, merge nothing, delete no branch and
\* leave the task list and the task file as they were.
C9_ReviewRequiresPending ==
    [][(last'.op \in {"approve", "reject"}
          /\ StatusOf(tasks, last'.id) # "pending_review")
          => /\ last'.result \in {"not_found", "not_review"}
             /\ UNCHANGED <<merged, branches, tasks, file>>]_vars

\* a rejection was refused for a task that is not in review and has a branch
\* that could be deleted
C9_Witness ==
    /\ last.op = "reject"
    /\ last.result = "not_review"
    /\ last.id \in branches
    /\ last.id \notin checkedOut

MarkerCount(tt) == Cardinality({k \in 1..Len(tt) : tt[k] = MARKER})

\* C11: reject_task never marks a title twice: no title in the task list or
\* in the task file carries the marker more than once, a successful reject
\* leaves it there exactly once, and a reject of a task whose title is
\* already marked leaves the title as it was.
C11_MarkerOnce ==
    /\ [](\A k \in 1..Len(tasks) : MarkerCount(tasks[k].title) <= 1)
    /\ [](\A k \in 1..Len(Parsed(file)) : MarkerCount(Parsed(file)[k].title) <= 1)
    /\ [](Returned("reject") => MarkerCount(FileTitle(last.id)) = 1)
    /\ [][(last'.op = "reject" /\ HasPrefix(TitleOf(tasks, last'.id)))
             => TitleOf(tasks', last'.id) = TitleOf(tasks, last'.id)]_vars

\* a task rejected before was put back into review and rejected again
C11_Witness ==
    /\ Returned("reject")
    /\ last.from = "marked"
    /\ FileTitle(last.id) = <<MARKER, "T">>
    /\ TitleOf(tasks, last.id) = <<MARKER, "T">>

(***************************************************************************)
(* Claims about terminal sessions                                          *)
(***************************************************************************)
\* the HandleWebSocket call for connection c starts in this step and finds
\* its session in the table
Reattaches(c) ==
    /\ handler[c].pc = "idle"
    /\ handler'[c].pc = "reading"

\* the HandleWebSocket call for connection c leaves its message loop and
\* returns in this step
Detaches(c) ==
    handler[c].pc = "reading" /\ handler'[c].pc = "closed" /\ crashed' = "no"

\* no child shell is ended by a panic on a connection that a detach has
\* unbound
NoChildKilled == crashed = "nil Conn" => \A o \in DOMAIN terms : terms[o].child # "killed"

\* a detach leaves the table and the children as they are, and an attach to
\* a session in the table starts no child and serves the session's terminal
SameChildOnReattach ==
    \A c \in Conns :
        /\ Detaches(c) =>
              /\ terminals' = terminals
              /\ \A o \in DOMAIN terms : terms'[o].child = terms[o].child
        /\ Reattaches(c) =>
              /\ Len(terms') = Len(terms)
              /\ handler'[c].term = terminals[handler'[c].id]
              /\ terms'[handler'[c].term].Conn = c

\* the table maps each session to a terminal made for it, and no two
\* sessions to the same one
DistinctChildren ==
    \A i, j \in SessionIds :
        terminals[i] # 0 =>
            /\ terminals[i] \in DOMAIN terms
            /\ terms[terminals[i]].ID = i
            /\ (j # i => terminals[j] # terminals[i])

\* C12: a client's disconnect never ends the session's child shell, a later
\* attach with the same session id is bound to that same child and starts no
\* new one, and sessions with different ids never share a child.
C12_DetachKeepsChild ==
    /\ []NoChildKilled
    /\ [][SameChildOnReattach]_vars
    /\ []DistinctChildren

\* C13: what the client of a connection has received is the history first
\* and the live output after it: no output frame comes before a history
\* frame, the history frames come in buffer order, and no chunk comes twice
\* (neither twice as history nor once as history and once as live output).
C13_HistoryThenLive ==
    \A c \in Conns :
        LET r == conn[c].received IN
        \A k, l \in 1..Len(r) :
            k < l =>
                /\ r[k][2] # r[l][2]
                /\ ~(r[k][1] = "output" /\ r[l][1] = "history")
                /\ (r[k][1] = "history" /\ r[l][1] = "history") => r[k][2] < r[l][2]


(***************************************************************************)
(* Claims about the task store                                             *)
(***************************************************************************)
\* goroutine g is between the Lock and the Unlock of a call that writes
\* ts.tasks (LoadTasks takes the mutex for writing as well)
Writing(g) == calls[g].pc \in {"locked", "save"} /\ calls[g].op \in {"load", "save", "update", "move"}

\* a call that hands a list back returns in this step
ReaderReturns(g) == calls[g].pc = "locked" /\ calls'[g].pc = "done"

OneWriter == \A g, h \in Callers : (Writing(g) /\ Writing(h)) => g = h

\* the list handed back is what ts.tasks holds while no write is under way
WholeReads ==
    \A g \in Callers :
        ReaderReturns(g) =>
            /\ \A h \in Callers \ {g} : ~Writing(h)
            /\ calls'[g].err = "ok" =>
                   calls'[g].val = IF calls[g].op = "filter"
                                   THEN Filtered(tasks', calls[g].status)
                                   ELSE tasks'

\* a list handed back still is what it was when the call returned
ResultsKept == \A g \in Callers : calls[g].pc = "done" => calls[g].val = calls[g].snap

\* C14: with writers and readers running concurrently at most one writer is
\* in its critical section, every list a reader returns is the task list
\* before or after a whole write, and no later write alters a list that
\* was returned.
C14_ReadersSeeWholeWrites == []OneWriter /\ [][WholeReads]_vars /\ []ResultsKept

\* a SaveTasks call returns nil in this step
SaveReturns(g) ==
    calls[g].pc = "save" /\ calls[g].op = "save" /\ calls'[g].pc = "idle" /\ last'.result = "ok"

\* a LoadTasks call returns in this step, and the call that returned before
\* it was a SaveTasks that returned nil
LoadAfterSave(g) ==
    /\ last.op = "save"
    /\ last.result = "ok"
    /\ calls[g].op = "load"
    /\ ReaderReturns(g)

\* C15: save_tasks followed by load returns the list that was saved: a
\* list that save_tasks stored passed validation and is the task list when
\* the call returns, and a load that follows returns that list, task by
\* task and field by field.
C15_SaveThenLoad ==
    /\ [][\A g \in Callers :
            SaveReturns(g) => (validateTasks(calls[g].list) /\ tasks' = calls[g].list)]_vars
    /\ [][\A g \in Callers :
            LoadAfterSave(g) => (calls'[g].err = "ok" /\ calls'[g].val = tasks)]_vars

\* a load right after the save of the two-task board returned that board,
\* with the dependency list and the parent of its second task
C15_Witness ==
    /\ last.op = "load"
    /\ \E g \in Callers :
          /\ calls[g].pc = "done"
          /\ calls[g].op = "load"
          /\ calls[g].val = Board2
          /\ calls[g].snap = Board2

\* the writer g gets past its checks and assigns to ts.tasks in this step
Assigns(g, o) == calls[g].pc = "locked" /\ calls[g].op = o /\ calls'[g].pc = "save"

\* the writer g returns in this step, after its assignment
WriteReturns(g) == calls[g].pc = "save" /\ calls'[g].pc = "idle"

\* C16: a successful move_task changes only the status of the task with the
\* given id and a successful update_task replaces only the task with the
\* id of the task given; the other tasks, the order and the length of the
\* list stay, and nothing else is changed up to the return.
C16_OnlyTheTaskChanges ==
    /\ [][\A g \in Callers :
            Assigns(g, "move") =>
                \E k \in 1..Len(tasks) :
                    /\ tasks[k].id = calls[g].id
                    /\ tasks' = [tasks EXCEPT ![k].status = calls[g].status]]_vars
    /\ [][\A g \in Callers :
            Assigns(g, "update") =>
                \E k \in 1..Len(tasks) :
                    /\ tasks[k].id = calls[g].task.id
                    /\ tasks' = [tasks EXCEPT ![k] = calls[g].task]]_vars
    /\ [][\A g \in Callers :
            (WriteReturns(g) /\ calls[g].op \in {"move", "update"}) => tasks' = tasks]_vars

\* the first task of the two-task board was moved to doing: the call has
\* returned, and the second task and the order are as they were
C16_Witness ==
    /\ last.op = "move"
    /\ last.result = "ok"
    /\ tasks = [Board2 EXCEPT ![1].status = "doing"]
    /\ Parsed(file) = tasks

\* the results of a call that was turned down: a task with an empty title or
\* with a status or priority outside the enumerations, an unknown target
\* status, an id that is not in the list
Rejections == {"validation", "invalid_status", "not_found"}

\* C17: a save_tasks, update_task or move_task call that is rejected returns
\* an error and leaves the task list, the task file and the dispatched
\* launches as they were.
C17_RejectedChangesNothing ==
    [][(last'.op \in {"save", "update", "move"} /\ last'.result \in Rejections)
          => UNCHANGED <<tasks, file, spawns>>]_vars

\* an update_task with an empty title was turned down while the board was
\* loaded, and the board is still what it was
C17_Witness ==
    /\ last.op = "update"
    /\ last.result = "validation"
    /\ tasks = Board0
    /\ Parsed(file) = Board0

\* no id occurs twice in the list
UniqueIds(list) == \A k, l \in 1..Len(list) : list[k].id = list[l].id => k = l

\* C18: after every successful write through the task store the ids of the
\* stored list are pairwise distinct, and save_tasks turns down a list in
\* which an id occurs twice.
C18_IdsUnique ==
    /\ [][\A g \in Callers :
            (WriteReturns(g) /\ last'.result = "ok")
                => (UniqueIds(tasks') /\ UniqueIds(Parsed(file')))]_vars
    /\ [][\A g \in Callers : Assigns(g, "save") => UniqueIds(calls[g].list)]_vars

\* every task of the list that is in pending_review has its branch
ReviewHasBranch(list) ==
    \A k \in 1..Len(list) : list[k].status = "pending_review" => list[k].id \in branches

\* C19: in every reachable state every task in pending_review has an
\* existing branch task_<id>, in the task list and in the task file.
C19_ReviewHasBranch == ReviewHasBranch(tasks) /\ ReviewHasBranch(Parsed(file))

(***************************************************************************)
(* Claims about the end of an agent                                        *)
(***************************************************************************)
\* worktree n carries a lease record and no subshell is about to run claude
\* there or is waiting for it: the agent launched there has terminated
AgentTerminated(n) ==
    /\ n \in DOMAIN lease
    /\ ~\E p \in Invocations : WORKTREE_NUM[p] = n /\ sub[p] \in {"writeLease", "claude"}

\* worktree n is detached from its task branch and has no lease record
Released(n) == n \notin DOMAIN lease /\ (n \in DOMAIN head => head[n] = 0)

\* C20: after the agent of a launch has terminated, with whatever status,
\* the spawner eventually detaches the worktree and deletes its lease
\* record, no later launch being needed.
C20_LeaseReleased == \A n \in 1..MAX_SUBAGENTS : AgentTerminated(n) ~> Released(n)

(***************************************************************************)
(* Claims about the pool's capacity, stale leases and the choice of a       *)
(* worktree                                                                *)
(***************************************************************************)
\* the process named in the lease is alive and the lease is not older than
\* the maximum age
Healthy(l) == Alive(l.pid) /\ now - l.started <= LOCK_TIMEOUT

\* MAX_SUBAGENTS worktrees exist and each holds a healthy lease
PoolFullyBusy ==
    /\ dirs = 1..MAX_SUBAGENTS
    /\ \A n \in dirs : n \in DOMAIN lease /\ Healthy(lease[n])

\* run p takes a step of its cleanup loop, its reuse loop or its capacity check
Scans(p) ==
    /\ pc[p] \in {"clean", "find", "count"}
    /\ <<pc'[p], idx'[p]>> # <<pc[p], idx[p]>>

\* C21: while the maximum number of worktrees exist and each holds a healthy
\* lease, a launch removes and changes no lease record, creates no
\* worktree, takes none, and ends at its capacity check with the pool-full
\* error.
C21_PoolFull ==
    [][\A p \in Invocations :
          (PoolFullyBusy /\ Scans(p)) =>
              /\ lease' = lease
              /\ dirs' = dirs
              /\ pc'[p] \in {"clean", "find", "count", "failed_full"}
              /\ pc[p] = "count" => pc'[p] = "failed_full"]_vars

\* a launch has ended with the pool-full error while both worktrees hold a
\* healthy lease
C21_Witness == PoolFullyBusy /\ \E p \in Invocations : pc[p] = "failed_full"

\* the cleanup loop of run p is at a lease older than the maximum age whose
\* process is alive, and p steps
AtExpiredLock(p) ==
    /\ pc[p] = "clean"
    /\ idx[p] \in DOMAIN lease
    /\ Alive(lease[idx[p]].pid)
    /\ now - lease[idx[p]].started > LOCK_TIMEOUT
    /\ <<pc'[p], idx'[p]>> # <<pc[p], idx[p]>>

\* the reuse loop of run p is at a worktree whose lease p has purged and that
\* has none now, and p steps
AtPurged(p) ==
    /\ pc[p] = "find"
    /\ idx[p] \in stale_cleaned[p]
    /\ idx[p] \in dirs
    /\ idx[p] \notin DOMAIN lease
    /\ <<pc'[p], idx'[p]>> # <<pc[p], idx[p]>>

\* C22: a lease older than the maximum age is purged by the next launch
\* although its process is alive, the launch goes on, and when its reuse
\* loop comes to that worktree it takes it.
C22_ExpiredLeaseReclaimed ==
    /\ [][\A p \in Invocations :
            AtExpiredLock(p) => (idx[p] \notin DOMAIN lease' /\ pc'[p] \notin Failures)]_vars
    /\ [][\A p \in Invocations :
            AtPurged(p) => (WORKTREE_NUM'[p] = idx[p] /\ pc'[p] = "prepare")]_vars

C24_LoadCreatesFile ==
    [][(~file.exists /\ last'.op = "load")
          => /\ tasks' = << >>
             /\ last'.result = "ok" => (file'.exists /\ Parsed(file') = << >> /\ file'.data = Marshal(<< >>))
             /\ last'.result # "ok" => ~file'.exists]_vars

\* a load found no file and returned: the list is empty and the file is
\* there with the empty list
C24_Witness ==
    /\ last.op = "load"
    /\ last.from = "missing"
    /\ last.result = "ok"
    /\ tasks = << >>
    /\ file.exists
    /\ Parsed(file) = << >>

\* the call before was a successful move_task, and this step is a move_task
\* of the same task to the same status
MovedAgain ==
    /\ last.op = "move"
    /\ last.result = "ok"
    /\ last'.op = "move"
    /\ last'.id = last.id
    /\ last'.to = last.to

C26_BufferBounded ==
    appended > 0 =>
        /\ Len(Lines) <= 100
        /\ TotalBytes(Lines) <= 50000
        /\ Len(Lines) <= appended
        /\ \A k \in 1..Len(Lines) : Lines[k] = appended - Len(Lines) + k

\* short lines were dropped for the line limit, and now full lines have been
\* dropped for the byte limit
C26_Witness ==
    /\ lens.a = SmallLine /\ lens.b = ReadBufferSize
    /\ lens.switch > BufferMaxLines
    /\ appended > lens.switch
    /\ Len(Lines) < BufferMaxLines
    /\ Lines # << >> /\ Lines[1] > lens.switch

(***************************************************************************)
(* Claims about the lifetime of terminal sessions                          *)
(***************************************************************************)
\* the lines of buffer b are still there, in front, in buffer c
KeepsLines(b, c) == Len(c) >= Len(b) /\ SubSeq(c, 1, Len(b)) = b

\* C27: a session whose child is running stays in the session table, bound
\* to the same terminal and with the lines its buffer holds, whatever step is
\* taken: the table entry goes only after the child has exited.
C27_RemovedOnlyAfterExit ==
    [][\A i \in SessionIds :
         (terminals[i] # 0 /\ terms[terminals[i]].child = "running") =>
             /\ terminals'[i] = terminals[i]
             /\ KeepsLines(terms[terminals[i]].Buffer, terms'[terminals[i]].Buffer)]_vars

(***************************************************************************)
(* Claims about move_task and reject_task                                  *)
(***************************************************************************)
\* the task file on disk shows task i in status st
OnDisk(f, i, st) ==
    /\ f.exists
    /\ IndexOf(Parsed(f), i) # 0
    /\ StatusOf(Parsed(f), i) = st

\* C28: a move_task call that dispatches a launch has returned no error and
\* has left the new status in the task file; a move_task call that returns no
\* error has left the new status in the task file, so a call whose write
\* failed returns the error, and it dispatches nothing.
C28_StatusDurableBeforeSpawn ==
    [][last'.op = "move" =>
         /\ Len(spawns') > Len(spawns) =>
                /\ last'.result = "ok"
                /\ OnDisk(file', last'.id, last'.to)
         /\ last'.result = "ok" => OnDisk(file', last'.id, last'.to)
         /\ last'.result # "ok" => spawns' = spawns]_vars

\* a move from todo to doing has been written and its launch is waiting
C28_Witness ==
    /\ last.op = "move" /\ last.result = "ok"
    /\ last.from = "todo" /\ last.to = "doing"
    /\ spawns = <<last.id>>
    /\ OnDisk(file, last.id, "doing")

\* C29: a reject_task call on a task in pending_review whose branch was not
\* deleted (git refused, or there was no branch) still sets the status to
\* done and marks the title; it returns no error unless the write of the task
\* file failed, and after a successful return the file shows the task done
\* and marked.
C29_RejectDespiteBranch ==
    [][(/\ last'.op = "reject"
        /\ IndexOf(tasks, last'.id) # 0
        /\ StatusOf(tasks, last'.id) = "pending_review"
        /\ branches' = branches)
          => /\ last'.result \in {"ok", "save_failed"}
             /\ StatusOf(tasks', last'.id) = "done"
             /\ TitleOf(tasks, last'.id) # << >> => HasPrefix(TitleOf(tasks', last'.id))
             /\ last'.result = "save_failed" => file' = file
             /\ last'.result = "ok" =>
                    /\ OnDisk(file', last'.id, "done")
                    /\ HasPrefix(TitleOf(Parsed(file'), last'.id))]_vars

\* a rejection returned success and the task is done and marked, while the
\* branch is still there, checked out in the worktree its agent left behind
C29_Witness ==
    /\ last.op = "reject" /\ last.result = "ok"
    /\ last.id \in branches /\ last.id \in checkedOut
    /\ StatusOf(tasks, last.id) = "done"
    /\ HasPrefix(TitleOf(tasks, last.id))
    /\ OnDisk(file, last.id, "done")

(***************************************************************************)
(* Claims about the choice of a worktree                                   *)
(***************************************************************************)
\* worktree n exists and is idle: it has no lease, or a stale one
Idle(n) == n \in dirs /\ (n \notin DOMAIN lease \/ ~Healthy(lease[n]))

\* run p takes a step
Steps(p) == <<pc'[p], idx'[p]>> # <<pc[p], idx[p]>>

\* C30: a launch scans the worktrees from number 1 upwards and takes the
\* first idle one it meets, creating none; it creates a worktree only after
\* it has passed every number without meeting an idle worktree and while
\* fewer than the maximum exist; and it does not end before its scan while a
\* worktree is idle.
C30_ReuseLowestIdle ==
    [][\A p \in Invocations :
          /\ (pc[p] = "find" /\ Steps(p)) =>
                IF Idle(idx[p])
                THEN /\ pc'[p] = "prepare"
                     /\ WORKTREE_NUM'[p] = idx[p]
                     /\ dirs' = dirs
                ELSE /\ WORKTREE_NUM'[p] = WORKTREE_NUM[p]
                     /\ dirs' = dirs
                     /\ IF idx[p] < MAX_SUBAGENTS
                        THEN pc'[p] = "find" /\ idx'[p] = idx[p] + 1
                        ELSE pc'[p] = "count"
          /\ (pc[p] = "clean" /\ pc'[p] = "find") => idx'[p] = 1
          /\ (pc[p] = "create" /\ pc'[p] = "prepare") =>
                /\ Cardinality(dirs) < MAX_SUBAGENTS
                /\ WORKTREE_NUM'[p] \in dirs' \ dirs
          /\ dirs' # dirs => \E q \in Invocations : pc[q] = "create" /\ pc'[q] = "prepare"
          /\ (pc[p] = "clean" /\ Steps(p) /\ \E n \in dirs : Idle(n)) =>
                pc'[p] \in {"clean", "find"}]_vars

(***************************************************************************)
(* Claims about the atomic write                                           *)
(***************************************************************************)
\* an AtomicWriteJSON call has returned the error of its write or its rename
WriteFailed == aw.pc = "done" /\ aw.err \in {"write_failed", "rename_failed"}

\* C31: when a save returns the error of the write of the temporary file or
\* of its rename, the directory holds no temporary file of that save and the
\* task file holds what it held when the save began.
C31_FailedWriteLeavesNothing ==
    WriteFailed =>
        /\ tmpFile = 0
        /\ file = aw.before
        /\ torn = aw.tornBefore

\* C32: a save whose backup copy could not be made goes on to the write, and
\* when the write and the rename succeed it returns no error and the task
\* file holds the new list.
C32_BackupFailureDoesNotBlock ==
    aw.backup = "failed" =>
        /\ aw.pc # "backup"
        /\ aw.pc = "done" => aw.write # ""
        /\ (aw.pc = "done" /\ aw.write = "ok") =>
               /\ aw.err = "ok"
               /\ file = [exists |-> TRUE, data |-> Marshal(aw.data)]
               /\ ~torn

\* a save has returned success after its backup failed, and the file holds
\* the list it was given
C32_Witness ==
    /\ aw.pc = "done"
    /\ aw.backup = "failed"
    /\ aw.err = "ok"
    /\ aw.data # << >>
    /\ file = [exists |-> TRUE, data |-> Marshal(aw.data)]
    /\ file # aw.before

(***************************************************************************)
(* Claims about the locking of the session table                           *)
(***************************************************************************)
\* C33: the goroutine that inserts into or deletes from the session table
\* holds the table's mutex for writing while it does.
C33_TableWritesLocked ==
    access.op \in {"insert", "delete"} => access.mu = "Lock"

(***************************************************************************)
(* Claims about concurrent calls of the facade                             *)
(***************************************************************************)
\* the launches dispatched for task i
Dispatched(i) == {k \in DOMAIN spawns : spawns[k] = i}

\* C34: move_task(i, doing) calls that run at the same time on a task in todo
\* dispatch at most one launch for it (no call here moves a task back to
\* todo, so two launches of one task come from calls that overlap).
C34_OneSpawnPerTask ==
    \A i \in TaskIds : Cardinality(Dispatched(i)) <= 1

\* call c of App has returned success for operation o on task i
Succeeded(c, o, i) == c.pc = "done" /\ c.op = o /\ c.id = i /\ c.err = "ok"

\* C35: of an approve_task and a reject_task call on the same task at most
\* one returns success, and no task is both merged into the mainline and
\* carrying the NOT MERGED marker in its title.
C35_ApproveRejectExclusive ==
    \A i \in TaskIds :
        /\ ~(\E g, h \in Callers :
                Succeeded(calls[g], "approve", i) /\ Succeeded(calls[h], "reject", i))
        /\ ~(i \in merged /\ IndexOf(tasks, i) # 0 /\ HasPrefix(TitleOf(tasks, i)))

\* goroutine g makes its write of the task list in this step, for a task
\* other than a
WritesOther(g, a) ==
    /\ calls[g].pc \in {"move", "update"}
    /\ calls'[g].pc = "done"
    /\ calls[g].id # a

\* C36: a status pending_review that an agent wrote into the task file for
\* task a is still in the file after a move_task, approve_task or
\* reject_task call on another task has made its write.
C36_ExternalStatusKept ==
    [][\A a \in TaskIds, g \in Callers :
          (WritesOther(g, a) /\ OnDisk(file, a, "pending_review"))
              => OnDisk(file', a, "pending_review")]_vars

(***************************************************************************)
(* Claims about the in-memory list after a failed write                    *)
(***************************************************************************)
\* the list in memory is what the task file holds
InSync(ts, f) == f.exists /\ ts = Parsed(f)

\* C37: when SaveTasks, UpdateTask, MoveTask, or the update inside
\* approve_task or reject_task fails at its write, and the in-memory list
\* was equal to the task file before the call, it is equal to the task file
\* after the call.
C37_FailedWriteKeepsMemory ==
    [][(/\ last'.op \in {"save", "update", "move", "approve", "reject"}
        /\ last'.result = "save_failed"
        /\ InSync(tasks, file))
          => InSync(tasks', file')]_vars

\* the run whose subshell wrote lease record l (pid=$$, later pid=$!)
WroteLease(p, l) == l.pid \in {ScriptPid(p), AgentPid(p)} /\ l.task_id = TASK_ID[p]

\* C38: a lease record disappears only in the exit of the run that wrote it
\* or while it is stale (dead pid or past the timeout); an agent that
\* outlived its lease does not remove the record of the task that holds the
\* workspace now
C38_LeaseDeletedByOwnerOrStale ==
    [][\A n \in DOMAIN lease :
          (n \notin DOMAIN lease')
             => \/ IsStale(lease[n])
                \/ \E p \in Invocations :
                      /\ sub[p] = "cleanup" /\ sub'[p] = "done"
                      /\ WORKTREE_NUM[p] = n
                      /\ WroteLease(p, lease[n])]_vars

\* connection c2 was bound to the terminal that the handler of connection c1
\* serves, while c1 was still attached to it
Supersedes(c2, c1) ==
    /\ c1 # c2
    /\ handler[c1].pc = "reading"
    /\ handler[c1].wait = c1
    /\ terms[handler[c1].term].Conn = c2
    /\ conn[c2].open

\* C39: once a second client is attached to a session, the return of the
\* first client's handler after that client's disconnect neither closes the
\* second client's connection nor unbinds it from the terminal
C39_DisconnectKeepsOtherBinding ==
    [][\A c1, c2 \in Conns :
          (Supersedes(c2, c1) /\ ~conn[c1].client /\ Detaches(c1))
             => /\ conn'[c2].open
                /\ terms'[handler[c1].term].Conn = c2]_vars

\* the child shell of terminal o is running
ChildRunning(o) == terms[o].child = "running"

\* the HandleWebSocket call that created terminal o is between createTerminal
\* and its insert
BeingStored(o) == \E c \in Conns : handler[c].pc = "store" /\ handler[c].term = o

\* C40: no session id has two running child shells, also when two clients
\* attach at once with an id not in the table, and a running child shell is
\* the one in the table under its id (or about to be put there by the call
\* that started it)
C40_OneChildPerSession ==
    /\ \A o, p \in DOMAIN terms :
          (o # p /\ terms[o].ID = terms[p].ID) => ~(ChildRunning(o) /\ ChildRunning(p))
    /\ \A o \in DOMAIN terms :
          ChildRunning(o) => (terminals[terms[o].ID] = o \/ BeingStored(o))

=============================================================================
